---- MODULE Spec2Model ----
(***************************************************************************)
(* Model of the InkyCloud-F1 e-ink calendar renderer                       *)
(* (src/app/services/renderer.py): the Renderer's two entry points         *)
(* render_calendar and render_error, the section renderers they call, and  *)
(* the text-fit utility _fit_text.                                         *)
(*                                                                         *)
(* Text is a sequence of one-character strings.  The canvas is a record    *)
(* (identity, size, mode, background); what is drawn on it is kept as a    *)
(* log of drawing operations.  Font metrics (the Pillow textbbox call) are *)
(* computed from per-glyph extents of the loaded font.                     *)
(***************************************************************************)
EXTENDS Integers, Sequences, FiniteSets, Bags, TLC

VARIABLES
    pc,               \* position of the running call inside the Renderer
    translator,       \* self.translator
    family,           \* the typeface _load_font resolved
    race_data,        \* argument of render_calendar
    historical_data,  \* argument of render_calendar
    error_message,    \* argument of render_error
    image,            \* the canvas of the running call
    n_images,         \* canvases created by the running call
    ops,              \* drawing operations applied to the canvas, in order
    row_y,            \* local of _draw_schedule_section
    idx,              \* schedule entries consumed by the row loop
    schedule_bottom,  \* y handed to / returned by _draw_countdown_box
    countdown_bottom, \* value returned by _draw_countdown_box
    now,              \* clock read by _draw_countdown_box
    result,           \* value returned by the running call
    fit,              \* state of the text-fit harness
    http,             \* the /calendar.bmp request being handled
    s3,               \* the cleanup_old_backups call and the bucket it works on
    bk,               \* the perform_backup call
    i18n,             \* services/i18n.py: the translation files and _translations_cache
    fetch,            \* F1Service._fetch_with_retry: the running call
    scheduler,        \* services/scheduler.py: the global scheduler and the schedulers made
    naming,           \* the image key computed by the handler and by the scheduler
    gen,              \* scheduler.collect_and_generate: the running job, the image files and the cache
    api,              \* main._api_calls_buffer, the api_calls table and the running flush job
    serve,            \* main.get_calendar_bmp: a request served from a pre-generated file
    keying            \* main.get_calendar_bmp: two requests, their cache keys and what they select

vars == <<pc, translator, family, race_data, historical_data, error_message,
          image, n_images, ops, row_y, idx, schedule_bottom, countdown_bottom, now,
          result, fit, http, s3, bk, i18n, fetch, scheduler, naming, gen, api, serve, keying>>

rvars == <<pc, translator, family, race_data, historical_data, error_message,
           image, n_images, ops, row_y, idx, schedule_bottom, countdown_bottom, now,
           result>>

-----------------------------------------------------------------------------
(* Bounds of the model *)

\* longest error message tried by render_error
MaxMsgLen == 62

\* longest schedule handed to render_calendar
MaxSchedule == 7

-----------------------------------------------------------------------------
(* config.py and the layout table of Renderer.__init__ *)

DISPLAY_WIDTH == 800

DISPLAY_HEIGHT == 480

ERROR_TEXT_LIMIT == 60

layout ==
    [ header_height |-> 90,
      header_split_x |-> 230,
      left_column_width |-> 500,
      right_column_x |-> 510,
      schedule_title_y |-> 100,
      schedule_start_y |-> 140,
      schedule_row_height |-> 28,
      schedule_date_x |-> 510,
      schedule_day_x |-> 575,
      schedule_time_x |-> 620,
      schedule_name_x |-> 680,
      results_y_start |-> 385,
      results_col1_x |-> 109,
      results_col2_x |-> 455,
      results_time_offset |-> 260,
      results_row_height |-> 20,
      results_data_y_offset |-> 4,
      circuit_stats_row_height |-> 18,
      padding |-> 15,
      separator_width |-> 2 ]

\* the five characters A-acute, Z-caron, Y-acute, g, y; an accented
\* character is written as its letter followed by the accent mark
TEXT_BASELINE_REF == <<"A'", "Z^", "Y'", "g", "y">>

-----------------------------------------------------------------------------
(* Sequence helpers (Python slicing and joining) *)

Min(a, b) == IF a <= b THEN a ELSE b

Max(a, b) == IF a >= b THEN a ELSE b

\* s[:n]
Prefix(s, n) == SubSeq(s, 1, Min(Len(s), n))

RECURSIVE SumSeq(_)
SumSeq(s) == IF s = <<>> THEN 0 ELSE Head(s) + SumSeq(Tail(s))

\* str(n) for n >= 0
RECURSIVE Str(_)
Str(n) ==
    LET digit == <<"0", "1", "2", "3", "4", "5", "6", "7", "8", "9">>[(n % 10) + 1]
    IN  IF n < 10 THEN <<digit>> ELSE Str(n \div 10) \o <<digit>>

-----------------------------------------------------------------------------
(* Fonts and text metrics: _load_font and ImageDraw.textbbox *)

\* typefaces _load_font can end with: the TrueType face (TitilliumWeb or the
\* DejaVu substitute, scalable) or Pillow's built-in default face
Families == {"truetype", "default"}

\* a font handle: family and nominal size; "unit" is the abstract face of the
\* text-fit harness, whose advances are 1, 2 and 3
Font(fam, size) == [family |-> fam, size |-> size]

AccentCaps == {"A'", "Z^", "Y'", "T^"}
AccentLower == {"i'", "a'", "e^"}
Descenders == {"g", "y", "p", "q", "j"}
NoInk == {" "}
Dots == {"."}
Narrow == {"i", "l", "i'", ".", " ", "(", ")", ":", "I"}
Wide == {"W", "M", "m", "w"}

\* vertical extent (top, bottom) of one glyph drawn at y = 0
GlyphBox(c, f) ==
    LET s == IF f.family = "default" THEN 10 ELSE f.size
        acc == s \div 10
        cap == (3 * s) \div 10
        low == s \div 2
        base == s + (s \div 10)
        desc == base + (s \div 4)
    IN  IF c \in AccentCaps THEN <<acc, base>>
        ELSE IF c \in AccentLower THEN <<cap - 1, base>>
        ELSE IF c \in Descenders THEN <<low, desc>>
        ELSE IF c \in Dots THEN <<base - 2, base>>
        ELSE IF c \in {"a", "c", "e", "n", "o", "r", "s", "u", "v", "x", "z", "m", "w"}
             THEN <<low, base>>
        ELSE <<cap, base>>

\* horizontal advance of one glyph
Advance(c, f) ==
    LET em == IF f.family = "unit" THEN 1
              ELSE IF f.family = "default" THEN 3
              ELSE f.size \div 4
    IN  IF c \in Narrow THEN em
        ELSE IF c \in Wide THEN 3 * em
        ELSE 2 * em

RECURSIVE InkTop(_, _)
InkTop(t, f) ==
    IF t = <<>> THEN 1000
    ELSE IF Head(t) \in NoInk THEN InkTop(Tail(t), f)
    ELSE Min(GlyphBox(Head(t), f)[1], InkTop(Tail(t), f))

RECURSIVE InkBottom(_, _)
InkBottom(t, f) ==
    IF t = <<>> THEN 0
    ELSE IF Head(t) \in NoInk THEN InkBottom(Tail(t), f)
    ELSE Max(GlyphBox(Head(t), f)[2], InkBottom(Tail(t), f))

\* draw.textbbox((0, 0), t, font=f): <<left, top, right, bottom>>
textbbox(t, f) ==
    LET right == SumSeq([i \in 1..Len(t) |-> Advance(t[i], f)])
        bottom == InkBottom(t, f)
    IN  IF bottom = 0 THEN <<0, 0, right, 0>>
        ELSE <<0, InkTop(t, f), right, bottom>>

\* self.fonts
fonts(fam) ==
    [ header_title |-> Font(fam, 36),
      schedule_title |-> Font(fam, 24),
      schedule_row |-> Font(fam, 20),
      schedule_row_bold |-> Font(fam, 20),
      circuit_name |-> Font(fam, 18),
      results_title |-> Font(fam, 18),
      results_year |-> Font(fam, 36),
      results_row |-> Font(fam, 16),
      circuit_stats_value |-> Font(fam, 14),
      icon_small |-> Font(fam, 14) ]

-----------------------------------------------------------------------------
(* Translation tables: the dict handed to Renderer(translator) *)

TrEn ==
    [ error |-> <<"E", "r", "r", "o", "r">>,
      weekend_schedule |-> <<"W", "E", "E", "K", "E", "N", "D">>,
      session_race |-> <<"R", "A", "C", "E">>,
      session_qualifying |-> <<"Q", "U", "A", "L", "I">>,
      countdown_in |-> <<"I", "N">>,
      countdown_days |-> <<"d", "a", "y", "s">>,
      countdown_hours |-> <<"h", "o", "u", "r", "s">>,
      new_track |-> <<"N", "E", "W", " ", "T", "R", "A", "C", "K">>,
      qualifying |-> <<"Q", "U", "A", "L", "I", "F", "Y", "I", "N", "G">>,
      race |-> <<"R", "A", "C", "E">> ]

\* a table with accented characters and some keys missing
TrCs ==
    [ error |-> <<"C", "h", "y", "b", "a">>,
      session_race |-> <<"Z", "A'", "V", "O", "D">>,
      countdown_in |-> <<"Z", "A">>,
      countdown_days |-> <<"d", "n", "i'">>,
      countdown_hours |-> <<"h", "o", "d", "i", "n">>,
      new_track |-> <<"N", "O", "V", "A'", " ", "T", "R", "A", "T^">>,
      race |-> <<"Z", "A'", "V", "O", "D">> ]

Translators == {TrEn, TrCs}

\* translator.get(key, default)
TGet(tr, key, default) == IF key \in DOMAIN tr THEN tr[key] ELSE default

-----------------------------------------------------------------------------
(* The canvas and the encoder *)

NoImage == [id |-> 0, w |-> 0, h |-> 0, mode |-> "", bg |-> 0]

\* a canvas created with its two dimensions exchanged
NewCanvasSwapped(id) ==
    [id |-> id, w |-> DISPLAY_HEIGHT, h |-> DISPLAY_WIDTH, mode |-> "1", bg |-> 1]

\* Image.new("1", (self.width, self.height), 1); id numbers the canvases of a call
NewCanvas(id) == [id |-> id, w |-> DISPLAY_WIDTH, h |-> DISPLAY_HEIGHT, mode |-> "1", bg |-> 1]

\* bits per pixel of a Pillow mode
BitsOf(mode) == IF mode = "1" THEN 1 ELSE IF mode = "L" THEN 8 ELSE 24

\* _to_bmp: image.save(buffer, format="BMP"); the BMP file as its header fields,
\* its byte length and the canvas content it encodes
to_bmp(img, drawn) ==
    LET bits == BitsOf(img.mode)
        stride == (((img.w * bits) + 31) \div 32) * 4
        palette == IF bits <= 8 THEN 4 * (2 ^ bits) ELSE 0
        offset == 14 + 40 + palette
    IN  [ signature |-> "BM",
          width |-> img.w,
          height |-> img.h,
          bits |-> bits,
          length |-> offset + (stride * img.h),
          canvas |-> img.id,
          content |-> drawn ]

\* one drawing operation
TextOp(sect, what, x, y, text) ==
    [sect |-> sect, kind |-> "text", what |-> what, x |-> x, y |-> y, text |-> text]

ShapeOp(sect, kind, what, y_top, y_bottom) ==
    [sect |-> sect, kind |-> kind, what |-> what, x |-> 0, y |-> y_top, y2 |-> y_bottom]

-----------------------------------------------------------------------------
(* render_error *)

\* the messages tried: every length up to MaxMsgLen, characters varying with
\* the position so that a prefix is told from any other slice
Message(n) == [i \in 1..n |-> <<"a", "W", "g", "i", "A'">>[(i % 5) + 1]]

Messages == {Message(n) : n \in 0..MaxMsgLen}

\* the message drawn without the slice
ErrorTextWhole(msg) == msg

\* error_message[:60]
ErrorTextShown(msg) == Prefix(msg, ERROR_TEXT_LIMIT)

\* render_error up to the two draw.text calls
RenderErrorStart(msg) ==
    /\ error_message' = msg
    /\ image' = NewCanvas(n_images + 1)
    /\ n_images' = n_images + 1
    /\ ops' = << TextOp("error", "label", layout.padding, layout.padding,
                        TGet(translator, "error", <<"E", "r", "r", "o", "r">>) \o <<":">>),
                 TextOp("error", "message", layout.padding, layout.padding + 50,
                        ErrorTextShown(msg)) >>
    /\ pc' = "error_bmp"
    /\ UNCHANGED <<translator, family, race_data, historical_data, row_y, idx,
                   schedule_bottom, countdown_bottom, now, result, fit, http, s3, bk, i18n, fetch, scheduler, naming, gen, api, serve, keying>>

\* render_error is called with any of the messages
RenderErrorDraw ==
    /\ pc = "idle"
    /\ \E msg \in Messages : RenderErrorStart(msg)

\* return self._to_bmp(image)
RenderErrorReturn ==
    /\ pc = "error_bmp"
    /\ result' = to_bmp(image, ops)
    /\ pc' = "error_done"
    /\ UNCHANGED <<translator, family, race_data, historical_data, error_message,
                   image, n_images, ops, row_y, idx, schedule_bottom, countdown_bottom,
                   now, fit, http, s3, bk, i18n, fetch, scheduler, naming, gen, api, serve, keying>>

-----------------------------------------------------------------------------
(* _fit_text *)

\* f"{pos}. {driver} ({team})"
Composite(pos, driver, team) ==
    Str(pos) \o <<".", " ">> \o driver \o <<" ", "(">> \o team \o <<")">>

\* get_width(t): int(draw.textbbox((0, 0), t, font=font)[2])
get_width(t, font) == textbbox(t, font)[3]

\* the test with "<" in place of "<="
FitsStrictly(t, font, max_width) == get_width(t, font) < max_width

\* the test "get_width(text) <= max_width" of the three stages
Fits(t, font, max_width) == get_width(t, font) <= max_width

\* for i in range(len(team), 2, -1): the first candidate that fits, or no
\* hit; "measured" counts the candidates measured
RECURSIVE TeamLoop(_, _, _, _, _, _)
TeamLoop(font, max_width, pos, driver, team, i) ==
    IF i <= 2 THEN [hit |-> FALSE, text |-> <<>>, measured |-> 0]
    ELSE LET short_team == Prefix(team, i) \o <<".", ".">>
             text == Composite(pos, driver, short_team)
             rest == TeamLoop(font, max_width, pos, driver, team, i - 1)
         IN  IF Fits(text, font, max_width)
             THEN [hit |-> TRUE, text |-> text, measured |-> 1]
             ELSE [rest EXCEPT !.measured = @ + 1]

\* for i in range(len(driver), 2, -1), with short_team = team[:3] + ".."
RECURSIVE DriverLoop(_, _, _, _, _, _)
DriverLoop(font, max_width, pos, driver, team, i) ==
    IF i <= 2 THEN [hit |-> FALSE, text |-> <<>>, measured |-> 0]
    ELSE LET short_team == Prefix(team, 3) \o <<".", ".">>
             short_driver == Prefix(driver, i) \o <<".">>
             text == Composite(pos, short_driver, short_team)
             rest == DriverLoop(font, max_width, pos, driver, team, i - 1)
         IN  IF Fits(text, font, max_width)
             THEN [hit |-> TRUE, text |-> text, measured |-> 1]
             ELSE [rest EXCEPT !.measured = @ + 1]

\* a last resort that keeps 3 characters of the driver name
FallbackShortDriver(pos, driver, team) ==
    Composite(pos, Prefix(driver, 3) \o <<".", ".">>, Prefix(team, 3) \o <<".", ".">>)

\* the last resort: f"{pos}. {driver[:5]}.. ({team[:3]}..)"
Fallback(pos, driver, team) ==
    Composite(pos, Prefix(driver, 5) \o <<".", ".">>, Prefix(team, 3) \o <<".", ".">>)

\* _fit_text with the two loops in the other order: the driver shrinks first
fit_text_driver_first(font, max_width, pos, driver, team) ==
    LET full == Composite(pos, driver, team)
        byTeam == TeamLoop(font, max_width, pos, driver, team, Len(team))
        byDriver == DriverLoop(font, max_width, pos, driver, team, Len(driver))
    IN  IF Fits(full, font, max_width) THEN [text |-> full, measured |-> 1]
        ELSE IF byDriver.hit THEN [text |-> byDriver.text, measured |-> 1 + byDriver.measured]
        ELSE IF byTeam.hit
             THEN [text |-> byTeam.text,
                   measured |-> 1 + byTeam.measured + byDriver.measured]
        ELSE [text |-> Fallback(pos, driver, team),
              measured |-> 1 + byTeam.measured + byDriver.measured]

\* _fit_text(draw, font, max_width, pos, driver, team): the text returned and
\* the number of get_width calls made on the way
fit_text(font, max_width, pos, driver, team) ==
    LET full == Composite(pos, driver, team)
        byTeam == TeamLoop(font, max_width, pos, driver, team, Len(team))
        byDriver == DriverLoop(font, max_width, pos, driver, team, Len(driver))
    IN  IF Fits(full, font, max_width) THEN [text |-> full, measured |-> 1]
        ELSE IF byTeam.hit THEN [text |-> byTeam.text, measured |-> 1 + byTeam.measured]
        ELSE IF byDriver.hit
             THEN [text |-> byDriver.text,
                   measured |-> 1 + byTeam.measured + byDriver.measured]
        ELSE [text |-> Fallback(pos, driver, team),
              measured |-> 1 + byTeam.measured + byDriver.measured]

-----------------------------------------------------------------------------
(* Harness of _fit_text: every call with inputs from bounded sets *)

\* longest team name tried
MaxTeamLen == 4

\* longest driver name tried
MaxDriverLen == 6

\* widest max_width tried
MaxWidth == 24

\* every name over a narrow and a wide letter, up to n characters
RECURSIVE NamesUpTo(_)
NamesUpTo(n) ==
    IF n = 0 THEN {<<>>}
    ELSE LET shorter == NamesUpTo(n - 1)
         IN  shorter \cup {Append(s, c) : s \in {x \in shorter : Len(x) = n - 1},
                                          c \in {"i", "W"}}

\* a long family name; its prefixes stand for the names longer than 4 characters
LongName(n) == [k \in 1..n |-> <<"W", "i", "i", "W", "i">>[(k % 5) + 1]]

TeamNames == NamesUpTo(MaxTeamLen)

DriverNames == NamesUpTo(Min(MaxDriverLen, 4)) \cup {LongName(n) : n \in 5..MaxDriverLen}

\* RaceResultEntry.position values tried: one digit and two digits
Positions == {1, 10}

UnitFont == Font("unit", 1)

FitIdle == [pc |-> "idle", font |-> UnitFont, max_width |-> 0, pos |-> 1,
            driver |-> <<>>, team |-> <<>>, text |-> <<>>, measured |-> 0]

\* a caller enters _fit_text
FitStart(mw, pos, driver, team) ==
    /\ fit' = [pc |-> "called", font |-> UnitFont, max_width |-> mw, pos |-> pos,
               driver |-> driver, team |-> team, text |-> <<>>, measured |-> 0]
    /\ UNCHANGED <<rvars, http, s3, bk, i18n, fetch, scheduler, naming, gen, api, serve, keying>>

\* _fit_text is called with any width, position and names
FitCall ==
    /\ fit.pc = "idle"
    /\ \E mw \in 0..MaxWidth, pos \in Positions, d \in DriverNames, t \in TeamNames :
          FitStart(mw, pos, d, t)

\* _fit_text runs to its return statement
FitReturn ==
    /\ fit.pc = "called"
    /\ LET r == fit_text(fit.font, fit.max_width, fit.pos, fit.driver, fit.team)
       IN  fit' = [fit EXCEPT !.pc = "returned", !.text = r.text, !.measured = r.measured]
    /\ UNCHANGED <<rvars, http, s3, bk, i18n, fetch, scheduler, naming, gen, api, serve, keying>>

-----------------------------------------------------------------------------
(* Race records: the dict built by F1Service._convert_race_times *)

\* session display names, in the order _convert_race_times adds them
SESSIONS == <<"FP1", "FP2", "FP3", "Qualifying", "Sprint">>

SessionName(i) == SESSIONS[((i - 1) % 5) + 1]

\* name.lower() on the session names that occur
LowerName(name) ==
    CASE name \in {"Race", "RACE", "race"} -> "race"
      [] name = "FP1" -> "fp1"
      [] name = "FP2" -> "fp2"
      [] name = "FP3" -> "fp3"
      [] name = "Qualifying" -> "qualifying"
      [] name = "Sprint" -> "sprint"
      [] OTHER -> name

\* the text of a session name, for drawing
NameText(name) ==
    CASE name = "Race" -> <<"R", "a", "c", "e">>
      [] name = "RACE" -> <<"R", "A", "C", "E">>
      [] name = "race" -> <<"r", "a", "c", "e">>
      [] name = "Qualifying" -> <<"Q", "u", "a", "l", "i">>
      [] name = "Sprint" -> <<"S", "p", "r", "i", "n", "t">>
      [] name = "FP1" -> <<"F", "P", "1">>
      [] name = "FP2" -> <<"F", "P", "2">>
      [] OTHER -> <<"F", "P", "3">>

\* seconds in an hour (the divisor of delta.seconds) and in a day
HOUR == 3600

DAY == 24 * HOUR

\* the race starts on the seventh day of the month at 15:00; session i of a
\* weekend is one day earlier than session i + 1
RaceTime == (6 * DAY) + (15 * HOUR)

\* the value of event["datetime"]: None or missing, an ISO string (valid or
\* not), or a datetime object; t is the instant in seconds
NoDt == [kind |-> "none", iso |-> FALSE, t |-> 0]
BadStr == [kind |-> "str", iso |-> FALSE, t |-> 0]
IsoStr(t) == [kind |-> "str", iso |-> TRUE, t |-> t]
DtObj(t) == [kind |-> "datetime", iso |-> TRUE, t |-> t]

\* the precomputed display string of entry i, e.g. "Fri 13:30"
DisplayTime(i) == <<"@">> \o Str(i)

Event(i, name, dt) == [name |-> name, datetime |-> dt, display_time |-> DisplayTime(i)]

\* the Race entry as the producers build it, and its variants: another case of
\* the name, a datetime object, no timestamp, a string that is not ISO
RaceVariants ==
    { [name |-> "Race", datetime |-> IsoStr(RaceTime)],
      [name |-> "RACE", datetime |-> IsoStr(RaceTime)],
      [name |-> "Race", datetime |-> DtObj(RaceTime)],
      [name |-> "Race", datetime |-> NoDt],
      [name |-> "race", datetime |-> BadStr] }

\* a schedule of n entries sorted by time: the Race entry rv at race_pos
\* (0: none), and the entry at odd_pos (0: none) carrying odd_dt
ScheduleOf(n, race_pos, rv, odd_pos, odd_dt) ==
    [ i \in 1..n |->
        IF i = race_pos THEN Event(i, rv.name, rv.datetime)
        ELSE Event(i, SessionName(i),
                   IF i = odd_pos THEN odd_dt ELSE IsoStr(RaceTime - ((n - i) * DAY))) ]

StandardRace == [name |-> "Race", datetime |-> IsoStr(RaceTime)]

\* the schedules of n entries tried: without a Race entry, with each variant
\* of the Race entry last, with the Race entry first; and with one session
\* whose timestamp is missing or is not ISO
SchedulesOf(n) ==
    { ScheduleOf(n, 0, StandardRace, odd[1], odd[2]) :
        odd \in {<<0, NoDt>>, <<1, NoDt>>, <<2, BadStr>>} }
    \cup { ScheduleOf(n, n, rv, 0, NoDt) : rv \in RaceVariants }
    \cup { ScheduleOf(n, n, StandardRace, 1, od) : od \in {NoDt, BadStr} }
    \cup { ScheduleOf(n, 1, StandardRace, 0, NoDt) }

Schedules == UNION { SchedulesOf(n) : n \in 0..MaxSchedule }

\* race_data["circuit"]
Monza == [ circuitId |-> <<"m", "o", "n", "z", "a">>,
           name |-> <<"M", "o", "n", "z", "a">>,
           location |-> <<"M", "o", "n", "z", "a">>,
           country |-> <<"I", "t", "a", "l", "y">> ]

Vegas == [ circuitId |-> <<"v", "e", "g", "a", "s">>,
           name |-> <<"L", "a", "s", " ", "V", "e", "g", "a", "s">>,
           location |-> <<"L", "a", "s", " ", "V", "e", "g", "a", "s">>,
           country |-> <<"U", "S", "A">> ]

Atlantis == [ circuitId |-> <<>>,
              name |-> <<"D", "e", "e", "p">>,
              location |-> <<>>,
              country |-> <<"A", "t", "l", "a", "n", "t", "i", "s">> ]

\* a circuit in a country COUNTRY_MAP does not list and no flag file covers
Narnia == [ circuitId |-> <<"n", "a", "r", "n", "i", "a">>,
            name |-> <<"C", "a", "i", "r">>,
            location |-> <<"C", "a", "i", "r">>,
            country |-> <<"N", "a", "r", "n", "i", "a">> ]

\* a circuit whose country is the empty string
Nowhere == [ circuitId |-> <<"n", "o", "w", "h", "e", "r", "e">>,
             name |-> <<"N", "o", "w", "h", "e", "r", "e">>,
             location |-> <<"N", "o">>,
             country |-> <<>> ]

Circuits == {Monza, Vegas, Atlantis, Narnia, Nowhere}

RaceRecord(circuit, schedule) ==
    [ race_name |-> <<"G", "r", "a", "n", "d", " ", "P", "r", "i", "x">>,
      season |-> 2025,
      circuit |-> circuit,
      schedule |-> schedule ]

NoRace == RaceRecord(Atlantis, <<>>)

-----------------------------------------------------------------------------
(* Historical records: models.HistoricalData *)

\* a RaceResultEntry / QualifyingResultEntry: position, driver.display_name,
\* constructor.name, and time / q3_time (empty when None)
Entry(pos, driver, team, time) ==
    [position |-> pos, driver |-> driver, team |-> team, time |-> time]

Verstappen == <<"V", "e", "r", "s", "t", "a", "p", "p", "e", "n">>
Perez == <<"P", "e", "r", "e", "z">>
Alonso == <<"A", "l", "o", "n", "s", "o">>
RedBull == <<"R", "e", "d", " ", "B", "u", "l", "l">>
AstonMartin == <<"A", "s", "t", "o", "n", " ", "M", "a", "r", "t", "i", "n">>
LapTime == <<"1", ":", "2", "9">>

Podium ==
    << Entry(1, Verstappen, RedBull, LapTime),
       Entry(2, Perez, RedBull, LapTime),
       Entry(3, Alonso, AstonMartin, <<>>),
       Entry(4, Perez, AstonMartin, LapTime) >>

Historical(season, is_new, quali, race) ==
    [ given |-> TRUE, season |-> season, is_new_track |-> is_new,
      qualifying_results |-> quali, race_results |-> race ]

\* historical_data = None
NoHistorical == [ given |-> FALSE, season |-> 0, is_new_track |-> FALSE,
                  qualifying_results |-> <<>>, race_results |-> <<>> ]

\* None; a new track with empty and with populated lists; results of 3 + 3,
\* 3 + 0 and 4 + 1 entries; season 0 stands for season = None
Historicals ==
    { NoHistorical,
      Historical(0, TRUE, <<>>, <<>>),
      Historical(2024, TRUE, SubSeq(Podium, 1, 3), SubSeq(Podium, 1, 3)),
      Historical(2024, FALSE, SubSeq(Podium, 1, 3), SubSeq(Podium, 1, 3)),
      Historical(2024, FALSE, SubSeq(Podium, 1, 3), <<>>),
      Historical(0, FALSE, Podium, SubSeq(Podium, 1, 1)) }

\* the (circuit, historical record) pairs render_calendar is called with
Cases ==
    { <<Monza, h>> : h \in Historicals } \cup
    { <<Vegas, Historical(2024, FALSE, SubSeq(Podium, 1, 3), SubSeq(Podium, 1, 3))>>,
      <<Atlantis, NoHistorical>>,
      <<Atlantis, Historical(2024, FALSE, SubSeq(Podium, 1, 3), <<>>)>>,
      <<Narnia, Historical(2024, FALSE, SubSeq(Podium, 1, 3), SubSeq(Podium, 1, 3))>>,
      <<Nowhere, Historical(2024, FALSE, SubSeq(Podium, 1, 3), <<>>)>> }

-----------------------------------------------------------------------------
(* Module-level tables and the asset directories of renderer.py *)

\* CIRCUIT_ID_MAP
CIRCUIT_ID_MAP ==
    (<<"v", "e", "g", "a", "s">> :> <<"l", "a", "s", "_", "v", "e", "g", "a", "s">>)

\* COUNTRY_MAP
COUNTRY_MAP ==
    (<<"A", "u", "s", "t", "r", "a", "l", "i", "a">> :> <<"a", "u">>) @@
    (<<"A", "u", "s", "t", "r", "i", "a">> :> <<"a", "t">>) @@
    (<<"A", "z", "e", "r", "b", "a", "i", "j", "a", "n">> :> <<"a", "z">>) @@
    (<<"B", "a", "h", "r", "a", "i", "n">> :> <<"b", "h">>) @@
    (<<"B", "e", "l", "g", "i", "u", "m">> :> <<"b", "e">>) @@
    (<<"B", "r", "a", "z", "i", "l">> :> <<"b", "r">>) @@
    (<<"C", "a", "n", "a", "d", "a">> :> <<"c", "a">>) @@
    (<<"C", "h", "i", "n", "a">> :> <<"c", "n">>) @@
    (<<"F", "r", "a", "n", "c", "e">> :> <<"f", "r">>) @@
    (<<"G", "e", "r", "m", "a", "n", "y">> :> <<"d", "e">>) @@
    (<<"H", "u", "n", "g", "a", "r", "y">> :> <<"h", "u">>) @@
    (<<"I", "t", "a", "l", "y">> :> <<"i", "t">>) @@
    (<<"J", "a", "p", "a", "n">> :> <<"j", "p">>) @@
    (<<"M", "e", "x", "i", "c", "o">> :> <<"m", "x">>) @@
    (<<"M", "o", "n", "a", "c", "o">> :> <<"m", "c">>) @@
    (<<"N", "e", "t", "h", "e", "r", "l", "a", "n", "d", "s">> :> <<"n", "l">>) @@
    (<<"P", "o", "r", "t", "u", "g", "a", "l">> :> <<"p", "t">>) @@
    (<<"Q", "a", "t", "a", "r">> :> <<"q", "a">>) @@
    (<<"R", "u", "s", "s", "i", "a">> :> <<"r", "u">>) @@
    (<<"S", "a", "u", "d", "i", " ", "A", "r", "a", "b", "i", "a">> :> <<"s", "a">>) @@
    (<<"S", "i", "n", "g", "a", "p", "o", "r", "e">> :> <<"s", "g">>) @@
    (<<"S", "p", "a", "i", "n">> :> <<"e", "s">>) @@
    (<<"T", "u", "r", "k", "e", "y">> :> <<"t", "r">>) @@
    (<<"U", "A", "E">> :> <<"a", "e">>) @@
    (<<"U", "n", "i", "t", "e", "d", " ", "A", "r", "a", "b", " ", "E", "m", "i", "r", "a", "t", "e", "s">> :> <<"a", "e">>) @@
    (<<"U", "K">> :> <<"g", "b">>) @@
    (<<"U", "n", "i", "t", "e", "d", " ", "K", "i", "n", "g", "d", "o", "m">> :> <<"g", "b">>) @@
    (<<"U", "S", "A">> :> <<"u", "s">>) @@
    (<<"U", "n", "i", "t", "e", "d", " ", "S", "t", "a", "t", "e", "s">> :> <<"u", "s">>)

\* CIRCUITS_DATA (assets/circuits_data.json): a sample with one complete
\* record, one holding the lap count and the first-edition year, and one
\* holding the length and the fastest lap; an absent field is empty
CIRCUITS_DATA ==
    (<<"m", "o", "n", "z", "a">> :>
        [ circuit_length |-> <<"5", ".", "8">>,
          number_of_laps |-> <<"5", "3">>,
          race_distance |-> <<"3", "0", "6">>,
          fastest_lap_time |-> <<"1", ":", "2", "1">>,
          fastest_lap_driver |-> <<"R", "u", " ", "B", "a", "r">>,
          fastest_lap_year |-> <<"2", "0", "0", "4">>,
          first_grand_prix |-> <<"1", "9", "5", "0">> ]) @@
    (<<"l", "a", "s", "_", "v", "e", "g", "a", "s">> :>
        [ circuit_length |-> <<>>,
          number_of_laps |-> <<"5", "0">>,
          race_distance |-> <<>>,
          fastest_lap_time |-> <<>>,
          fastest_lap_driver |-> <<>>,
          fastest_lap_year |-> <<>>,
          first_grand_prix |-> <<"2", "0", "2", "3">> ]) @@
    (<<"n", "a", "r", "n", "i", "a">> :>
        [ circuit_length |-> <<"4", ".", "2">>,
          number_of_laps |-> <<>>,
          race_distance |-> <<>>,
          fastest_lap_time |-> <<"1", ":", "3", "0">>,
          fastest_lap_driver |-> <<>>,
          fastest_lap_year |-> <<>>,
          first_grand_prix |-> <<>> ])

\* an image file: its name, its Pillow mode and its size
ImageFile(stem, ext, mode, w, h) ==
    [stem |-> stem, ext |-> ext, mode |-> mode, w |-> w, h |-> h]

\* files of TRACKS_PROCESSED_DIR, TRACKS_DIR and FLAGS_DIR, and whether
\* IMAGES_DIR holds the logo
TRACKS_PROCESSED == { ImageFile(<<"m", "o", "n", "z", "a">>, "bmp", "1", 494, 400) }

TRACKS == { ImageFile(<<"l", "a", "s", "_", "v", "e", "g", "a", "s">>, "png", "RGB", 1000, 400) }

FLAGS == { ImageFile(<<"i", "t">>, "bmp", "1", 120, 80),
           ImageFile(<<"u", "s">>, "bmp", "1", 60, 40),
           ImageFile(<<"a", "t">>, "bmp", "1", 30, 20) }

LogoExists == TRUE

-----------------------------------------------------------------------------
(* Character helpers: str.upper, str.lower, str.replace, str.split, glob *)

LowerLetters == <<"a", "b", "c", "d", "e", "f", "g", "h", "i", "j", "k", "l", "m",
                  "n", "o", "p", "q", "r", "s", "t", "u", "v", "w", "x", "y", "z">>

UpperLetters == <<"A", "B", "C", "D", "E", "F", "G", "H", "I", "J", "K", "L", "M",
                  "N", "O", "P", "Q", "R", "S", "T", "U", "V", "W", "X", "Y", "Z">>

UpperChar(c) ==
    IF \E i \in 1..26 : LowerLetters[i] = c
    THEN UpperLetters[CHOOSE i \in 1..26 : LowerLetters[i] = c]
    ELSE c

LowerChar(c) ==
    IF \E i \in 1..26 : UpperLetters[i] = c
    THEN LowerLetters[CHOOSE i \in 1..26 : UpperLetters[i] = c]
    ELSE c

\* t.upper() and t.lower()
Upper(t) == [i \in 1..Len(t) |-> UpperChar(t[i])]

Lower(t) == [i \in 1..Len(t) |-> LowerChar(t[i])]

\* t.replace(" ", "_")
SpacesToUnderscores(t) == [i \in 1..Len(t) |-> IF t[i] = " " THEN "_" ELSE t[i]]

\* t.split()[-1] of a text holding a word
LastWord(t) ==
    LET spaces == {i \in 1..Len(t) : t[i] = " "}
        last == IF spaces = {} THEN 0 ELSE CHOOSE i \in spaces : \A j \in spaces : j <= i
    IN  SubSeq(t, last + 1, Len(t))

\* whether needle occurs in hay
Contains(hay, needle) ==
    \E k \in 0..(Len(hay) - Len(needle)) : SubSeq(hay, k + 1, k + Len(needle)) = needle

\* dir.glob("*{word}*.{ext}")
Glob(files, word, ext) == {f \in files : f.ext = ext /\ Contains(f.stem, word)}

\* zero-padded two digits, as %d, %m, %H and %M print them
Pad2(n) == IF n < 10 THEN <<"0">> \o Str(n) ELSE Str(n)

-----------------------------------------------------------------------------
(* datetime: fromisoformat and strftime *)

\* datetime.fromisoformat(s): the instant, or ValueError
fromisoformat(dt) == [raised |-> ~dt.iso, t |-> dt.t]

WeekdayAbbr == <<"Mon", "Tue", "Wed", "Thu", "Fri", "Sat", "Sun">>

WeekdayLower == <<"mon", "tue", "wed", "thu", "fri", "sat", "sun">>

WeekdayText == << <<"M", "o", "n">>, <<"T", "u", "e">>, <<"W", "e", "d">>,
                  <<"T", "h", "u">>, <<"F", "r", "i">>, <<"S", "a", "t">>,
                  <<"S", "u", "n">> >>

\* day of the week of instant t, 1 = Monday (day 0 of the model is a Monday)
Weekday(t) == ((t \div DAY) % 7) + 1

\* dt.strftime("%d.%m."), in the third month
StrfDate(t) == Pad2((t \div DAY) + 1) \o <<".", "0", "3", ".">>

\* dt.strftime("%H:%M")
StrfTime(t) == Pad2((t % DAY) \div HOUR) \o <<":">> \o Pad2((t % HOUR) \div 60)

-----------------------------------------------------------------------------
(* render_calendar: entry, header *)

F == fonts(family)

\* render_calendar up to draw = ImageDraw.Draw(image)
RenderCalendarStart(race, hist) ==
    /\ race_data' = race
    /\ historical_data' = hist
    /\ image' = NewCanvas(n_images + 1)
    /\ n_images' = n_images + 1
    /\ ops' = <<>>
    /\ pc' = "header"
    /\ UNCHANGED <<translator, family, error_message, row_y, idx, schedule_bottom,
                   countdown_bottom, now, result, fit, http, s3, bk, i18n, fetch, scheduler, naming, gen, api, serve, keying>>

\* render_calendar is called with any race record and historical record
RenderCalendar ==
    /\ pc = "idle"
    /\ \E c \in Cases, s \in Schedules : RenderCalendarStart(RaceRecord(c[1], s), c[2])

\* _draw_header and _draw_f1_logo: three shapes, the logo pasted into the
\* canvas when its file exists, two lines of text
DrawHeader ==
    /\ pc = "header"
    /\ LET h == layout.header_height
           text_x == layout.header_split_x + 15
           start_y == ((h - 80) \div 2) - 5
           \* f"{season} FIA F1 World Championship"
           line1 == Str(race_data.season) \o
                    <<" ", "F", "I", "A", " ", "F", "1", " ", "W", "o", "r", "l", "d", " ",
                      "C", "h", "a", "m", "p", "i", "o", "n", "s", "h", "i", "p">>
           line2 == Upper(race_data.race_name)
       IN  ops' = ops \o
             << ShapeOp("header", "rect", "left", 0, h),
                ShapeOp("header", "line", "underline", h - 1, h - 1),
                ShapeOp("header", "rect", "right", 0, h) >> \o
             (IF LogoExists THEN <<ShapeOp("header", "paste", "logo", 2, h - 2)>> ELSE <<>>) \o
             << TextOp("header", "line1", text_x, start_y, line1),
                TextOp("header", "line2", text_x, start_y + 40, line2) >>
    /\ pc' = "track"
    /\ UNCHANGED <<translator, family, race_data, historical_data, error_message,
                   image, n_images, row_y, idx, schedule_bottom, countdown_bottom, now,
                   result, fit, http, s3, bk, i18n, fetch, scheduler, naming, gen, api, serve, keying>>

-----------------------------------------------------------------------------
(* _draw_track_section and _load_track_image *)

\* one file of a glob result (matches[0]), or no file
FirstOf(files) ==
    IF files = {} THEN [found |-> FALSE, file |-> ImageFile(<<>>, "", "", 0, 0)]
    ELSE [found |-> TRUE, file |-> CHOOSE f \in files : TRUE]

\* _load_track_image: the file opened, in the order processed bitmap by
\* circuit id, by lowercased id, by locality; original PNG / JPG in the same
\* order; any processed bitmap; nothing
load_track_image(race) ==
    LET circuit_id == race.circuit.circuitId
        location == SpacesToUnderscores(Lower(race.circuit.location))
        words == <<circuit_id, Lower(circuit_id)>> \o
                 (IF location # <<>> THEN <<location>> ELSE <<>>)
        processed == {i \in 1..Len(words) : Glob(TRACKS_PROCESSED, words[i], "bmp") # {}}
        original == {i \in 1..Len(words) :
                        Glob(TRACKS, words[i], "png") \cup Glob(TRACKS, words[i], "jpg") # {}}
        first(S) == CHOOSE i \in S : \A j \in S : i <= j
    IN  IF circuit_id = <<>> THEN FirstOf({})
        ELSE IF processed # {}
             THEN FirstOf(Glob(TRACKS_PROCESSED, words[first(processed)], "bmp"))
        ELSE IF original # {}
             THEN LET w == words[first(original)]
                  IN  IF Glob(TRACKS, w, "png") # {} THEN FirstOf(Glob(TRACKS, w, "png"))
                      ELSE FirstOf(Glob(TRACKS, w, "jpg"))
        ELSE FirstOf(TRACKS_PROCESSED)

\* the label "COUNTRY, CITY | CIRCUIT NAME"
LabelText(race) ==
    LET country == Upper(race.circuit.country)
        city == Upper(race.circuit.location)
    IN  IF city # <<>>
        THEN country \o <<",", " ">> \o city \o <<" ", "|", " ">> \o race.circuit.name
        ELSE country \o <<" ", "|", " ">> \o race.circuit.name

\* label_y: the label's text-box bottom 3px above the results separator
LabelY(race, fam) ==
    layout.results_y_start - 3 - textbbox(LabelText(race), fonts(fam).circuit_name)[4]

DrawTrackSection ==
    /\ pc = "track"
    /\ LET label_bbox == textbbox(LabelText(race_data), F.circuit_name)
           label_y == LabelY(race_data, family)
           text_visual_top == label_y + label_bbox[2]
           side_margin == 3
           track_top == 92
           available_height == (text_visual_top - side_margin) - track_top
           available_width == layout.left_column_width - (side_margin * 2)
           track == load_track_image(race_data)
           \* ratio = min(available_width / img_w, available_height / img_h)
           by_width == available_width * track.file.h <= available_height * track.file.w
           new_w == IF by_width THEN available_width
                    ELSE (track.file.w * available_height) \div track.file.h
           new_h == IF by_width THEN (track.file.h * available_width) \div track.file.w
                    ELSE available_height
           map == IF track.found
                  THEN [ShapeOp("track", "paste", "map", track_top, track_top + new_h)
                            EXCEPT !.x = side_margin]
                  ELSE [ShapeOp("track", "outline", "placeholder", track_top + 20,
                                (track_top + available_height) - 20)
                            EXCEPT !.x = side_margin + 20]
       IN  ops' = ops \o << map, TextOp("track", "label", layout.padding, label_y,
                                        LabelText(race_data)) >>
    /\ pc' = "schedule"
    /\ UNCHANGED <<translator, family, race_data, historical_data, error_message,
                   image, n_images, row_y, idx, schedule_bottom, countdown_bottom, now,
                   result, fit, http, s3, bk, i18n, fetch, scheduler, naming, gen, api, serve, keying>>

-----------------------------------------------------------------------------
(* _draw_schedule_section and _draw_schedule_row *)

\* the y below which the row loop stops: results_y_start - 80
ScheduleGuard == layout.results_y_start - 80

\* whether _draw_schedule_row raises on the event: a string that
\* datetime.fromisoformat rejects
RowRaises(event) ==
    event.datetime.kind = "str" /\ fromisoformat(event.datetime).raised

\* the four draw.text calls of _draw_schedule_row(draw, y, event)
ScheduleRowOps(tr, fam, y, event) ==
    LET dt == event.datetime
        has_dt == dt.kind \in {"str", "datetime"}
        t == IF dt.kind = "str" THEN fromisoformat(dt).t ELSE dt.t
        date_str == IF has_dt THEN StrfDate(t) ELSE <<>>
        day_str == IF has_dt
                   THEN TGet(tr, "day_" \o WeekdayLower[Weekday(t)], WeekdayText[Weekday(t)])
                   ELSE <<>>
        time_str == IF has_dt THEN StrfTime(t) ELSE event.display_time
        translated_name == TGet(tr, "session_" \o LowerName(event.name), NameText(event.name))
    IN  << TextOp("schedule", "date", layout.schedule_date_x, y, date_str),
           TextOp("schedule", "day", layout.schedule_day_x, y, day_str),
           TextOp("schedule", "time", layout.schedule_time_x, y, time_str),
           TextOp("schedule", "name", layout.schedule_name_x, y, translated_name) >>

\* _draw_schedule_section up to the row loop: the title
DrawScheduleTitle ==
    /\ pc = "schedule"
    /\ ops' = Append(ops, TextOp("schedule", "title", layout.right_column_x,
                                 layout.schedule_title_y,
                                 TGet(translator, "weekend_schedule",
                                      <<"W", "E", "E", "K", "E", "N", "D", " ",
                                        "S", "C", "H", "E", "D", "U", "L", "E">>)))
    /\ row_y' = layout.schedule_start_y
    /\ idx' = 0
    /\ pc' = "rows"
    /\ UNCHANGED <<translator, family, race_data, historical_data, error_message,
                   image, n_images, schedule_bottom, countdown_bottom, now, result,
                   fit, http, s3, bk, i18n, fetch, scheduler, naming, gen, api, serve, keying>>

\* the row position handed on as it is
CountdownArgNoGap(y) == y

\* the argument of _draw_countdown_box: row_y + 5
CountdownArg(y) == y + 5

\* whether the loop leaves after a row that moved row_y to y: the test
\* "if row_y > results_y_start - 80: break" after the increment
BreaksAfter(y) == y > ScheduleGuard

\* one iteration of "for event in schedule": the row is drawn at row_y, row_y
\* advances, and the loop breaks once row_y is past the guard
DrawScheduleRow ==
    /\ pc = "rows"
    /\ idx < Len(race_data.schedule)
    /\ ~RowRaises(race_data.schedule[idx + 1])
    /\ ops' = ops \o ScheduleRowOps(translator, family, row_y, race_data.schedule[idx + 1])
    /\ row_y' = row_y + layout.schedule_row_height
    /\ idx' = idx + 1
    /\ IF BreaksAfter(row_y') \/ idx' = Len(race_data.schedule)
       THEN pc' = "countdown" /\ schedule_bottom' = CountdownArg(row_y')
       ELSE pc' = "rows" /\ UNCHANGED schedule_bottom
    /\ UNCHANGED <<translator, family, race_data, historical_data, error_message,
                   image, n_images, countdown_bottom, now, result, fit, http, s3, bk, i18n, fetch, scheduler, naming, gen, api, serve, keying>>

\* the loop over an empty schedule
ScheduleEmpty ==
    /\ pc = "rows"
    /\ idx = 0
    /\ Len(race_data.schedule) = 0
    /\ pc' = "countdown"
    /\ schedule_bottom' = CountdownArg(row_y)
    /\ UNCHANGED <<translator, family, race_data, historical_data, error_message,
                   image, n_images, ops, row_y, idx, countdown_bottom, now, result,
                   fit, http, s3, bk, i18n, fetch, scheduler, naming, gen, api, serve, keying>>

\* datetime.fromisoformat raises ValueError inside _draw_schedule_row; nothing
\* in the renderer catches it, so render_calendar ends without a value
ScheduleRowRaises ==
    /\ pc = "rows"
    /\ idx < Len(race_data.schedule)
    /\ RowRaises(race_data.schedule[idx + 1])
    /\ pc' = "raised"
    /\ UNCHANGED <<translator, family, race_data, historical_data, error_message,
                   image, n_images, ops, row_y, idx, schedule_bottom, countdown_bottom,
                   now, result, fit, http, s3, bk, i18n, fetch, scheduler, naming, gen, api, serve, keying>>

-----------------------------------------------------------------------------
(* _draw_countdown_box *)

\* index of the first schedule entry named "race" in any case, or 0
RECURSIVE FindRace(_, _)
FindRace(schedule, i) ==
    IF i > Len(schedule) THEN 0
    ELSE IF LowerName(schedule[i].name) = "race" THEN i
    ELSE FindRace(schedule, i + 1)

\* race_dt after the search loop: the instant, None, or ValueError
RaceDt(schedule) ==
    LET i == FindRace(schedule, 1)
        dt == IF i = 0 THEN NoDt ELSE schedule[i].datetime
    IN  IF dt.kind = "str"
        THEN [raised |-> fromisoformat(dt).raised, some |-> TRUE, t |-> fromisoformat(dt).t]
        ELSE IF dt.kind = "datetime" THEN [raised |-> FALSE, some |-> TRUE, t |-> dt.t]
        ELSE [raised |-> FALSE, some |-> FALSE, t |-> 0]

\* readings of datetime.now(): before, at and after the race start
NowValues ==
    { RaceTime - ((2 * DAY) + (3 * HOUR) + 1800), RaceTime - (DAY + (23 * HOUR) + 3599),
      RaceTime - 1, RaceTime, RaceTime + HOUR }

\* the hours of the whole duration
DeltaHoursTotal(delta) == delta \div HOUR

\* delta.days and delta.seconds // 3600 of a timedelta of delta seconds
DeltaDays(delta) == delta \div DAY

DeltaHours(delta) == (delta % DAY) \div HOUR

\* f"{in_text} {days} {days_text} {hours} {hours_text}"
CountdownStr(tr, days, hours) ==
    TGet(tr, "countdown_in", <<"I", "N">>) \o <<" ">> \o Str(days) \o <<" ">> \o
    TGet(tr, "countdown_days", <<"d", "a", "y", "s">>) \o <<" ">> \o Str(hours) \o <<" ">> \o
    TGet(tr, "countdown_hours", <<"h", "o", "u", "r", "s">>)

\* the test with "<" in place of "<="
RaceStartedStrictly(delta) == delta < 0

\* delta.total_seconds() <= 0: the race has started
RaceStarted(delta) == delta <= 0

\* box_height taken from the countdown text itself
BoxHeightOfText(tr, fam, countdown_str) ==
    LET text_bbox == textbbox(countdown_str, fonts(fam).schedule_row_bold)
    IN  (text_bbox[4] - text_bbox[2]) + (2 * 6)

\* box_height = text_height + 2 * padding_y, from the reference text
BoxHeight(tr, fam, countdown_str) ==
    LET ref_bbox == textbbox(TEXT_BASELINE_REF, fonts(fam).schedule_row_bold)
    IN  (ref_bbox[4] - ref_bbox[2]) + (2 * 6)

\* stats_top_y = results_y_start - 3 - 3 * circuit_stats_row_height
StatsTopY == layout.results_y_start - 3 - (3 * layout.circuit_stats_row_height)

\* y_top of the box, centred between schedule_bottom and stats_top_y
BoxTop(bottom, box_height) == bottom + (((StatsTopY - bottom) - box_height) \div 2)

\* no "race" entry, or one without a timestamp: return schedule_bottom
CountdownNoRace ==
    /\ pc = "countdown"
    /\ ~RaceDt(race_data.schedule).some
    /\ countdown_bottom' = schedule_bottom
    /\ pc' = "stats"
    /\ UNCHANGED <<translator, family, race_data, historical_data, error_message,
                   image, n_images, ops, row_y, idx, schedule_bottom, now, result, fit, http, s3, bk, i18n, fetch, scheduler, naming, gen, api, serve, keying>>

\* datetime.fromisoformat raises ValueError on the race entry's string
CountdownRaises ==
    /\ pc = "countdown"
    /\ RaceDt(race_data.schedule).some
    /\ RaceDt(race_data.schedule).raised
    /\ pc' = "raised"
    /\ UNCHANGED <<translator, family, race_data, historical_data, error_message,
                   image, n_images, ops, row_y, idx, schedule_bottom, countdown_bottom,
                   now, result, fit, http, s3, bk, i18n, fetch, scheduler, naming, gen, api, serve, keying>>

\* the clock is read; the race has started: return schedule_bottom
CountdownPast(clock) ==
    /\ pc = "countdown"
    /\ RaceDt(race_data.schedule).some
    /\ ~RaceDt(race_data.schedule).raised
    /\ now' = clock
    /\ RaceStarted(RaceDt(race_data.schedule).t - clock)
    /\ countdown_bottom' = schedule_bottom
    /\ pc' = "stats"
    /\ UNCHANGED <<translator, family, race_data, historical_data, error_message,
                   image, n_images, ops, row_y, idx, schedule_bottom, result, fit, http, s3, bk, i18n, fetch, scheduler, naming, gen, api, serve, keying>>

\* the clock is read; the box and its text are drawn; return y_bottom
CountdownDraw(clock) ==
    /\ pc = "countdown"
    /\ RaceDt(race_data.schedule).some
    /\ ~RaceDt(race_data.schedule).raised
    /\ now' = clock
    /\ ~RaceStarted(RaceDt(race_data.schedule).t - clock)
    /\ LET delta == RaceDt(race_data.schedule).t - clock
           days == DeltaDays(delta)
           hours == DeltaHours(delta)
           countdown_str == CountdownStr(translator, days, hours)
           font == F.schedule_row_bold
           ref_bbox == textbbox(TEXT_BASELINE_REF, font)
           box_height == BoxHeight(translator, family, countdown_str)
           x_left == layout.right_column_x
           x_right == DISPLAY_WIDTH - 5
           y_top == BoxTop(schedule_bottom, box_height)
           y_bottom == y_top + box_height
           text_bbox == textbbox(countdown_str, font)
           text_x == x_left + (((x_right - x_left) - (text_bbox[3] - text_bbox[1])) \div 2)
           text_y == (y_top + 6) - ref_bbox[2]
       IN  /\ ops' = ops \o
                << [ShapeOp("countdown", "rect", "box", y_top, y_bottom) EXCEPT !.x = x_left],
                   TextOp("countdown", "text", text_x, text_y, countdown_str) >>
           /\ countdown_bottom' = y_bottom
    /\ pc' = "stats"
    /\ UNCHANGED <<translator, family, race_data, historical_data, error_message,
                   image, n_images, row_y, idx, schedule_bottom, result, fit, http, s3, bk, i18n, fetch, scheduler, naming, gen, api, serve, keying>>

-----------------------------------------------------------------------------
(* _draw_circuit_stats *)

NoCircuitData ==
    [ circuit_length |-> <<>>, number_of_laps |-> <<>>, race_distance |-> <<>>,
      fastest_lap_time |-> <<>>, fastest_lap_driver |-> <<>>, fastest_lap_year |-> <<>>,
      first_grand_prix |-> <<>> ]

\* CIRCUITS_DATA.get(CIRCUIT_ID_MAP.get(circuit_id, circuit_id), {})
CircuitData(race) ==
    LET circuit_id == race.circuit.circuitId
        mapped_id == IF circuit_id \in DOMAIN CIRCUIT_ID_MAP
                     THEN CIRCUIT_ID_MAP[circuit_id] ELSE circuit_id
    IN  IF mapped_id \in DOMAIN CIRCUITS_DATA THEN CIRCUITS_DATA[mapped_id]
        ELSE NoCircuitData

\* the list "stats": (icon, text) pairs, up to three
StatLines(tr, race) ==
    LET d == CircuitData(race)
        line1 == d.circuit_length \o
                 (IF d.number_of_laps # <<>>
                  THEN <<" ", "|", " ">> \o d.number_of_laps \o <<" ">> \o
                       TGet(tr, "laps", <<"l", "a", "p", "s">>)
                  ELSE <<>>) \o
                 (IF d.race_distance # <<>> THEN <<" ", "|", " ">> \o d.race_distance
                  ELSE <<>>)
        lap_text == d.fastest_lap_time \o
                    (IF d.fastest_lap_driver # <<>>
                     THEN <<" ", "(">> \o LastWord(d.fastest_lap_driver) \o
                          (IF d.fastest_lap_year # <<>>
                           THEN <<",", " ">> \o d.fastest_lap_year \o <<")">>
                           ELSE <<")">>)
                     ELSE <<>>)
        first == TGet(tr, "first_gp", <<"F", "i", "r", "s", "t", " ", "G", "P">>) \o
                 <<":", " ">> \o d.first_grand_prix
    IN  (IF d.circuit_length # <<>> THEN <<[icon |-> <<"ruler">>, text |-> line1]>> ELSE <<>>) \o
        (IF d.fastest_lap_time # <<>> THEN <<[icon |-> <<"bolt">>, text |-> lap_text]>>
         ELSE <<>>) \o
        (IF d.first_grand_prix # <<>> THEN <<[icon |-> <<"calendar">>, text |-> first]>>
         ELSE <<>>)

\* the block placed as if it always had three lines
StatsYStartOfThree(n) == layout.results_y_start - 3 - (3 * layout.circuit_stats_row_height)

\* y of the first stat line: the block's bottom 3px above the results line
StatsYStart(n) == layout.results_y_start - 3 - (n * layout.circuit_stats_row_height)

RECURSIVE MaxOf(_)
MaxOf(s) == IF s = <<>> THEN 0 ELSE Max(Head(s), MaxOf(Tail(s)))

DrawCircuitStats ==
    /\ pc = "stats"
    /\ LET stats == StatLines(translator, race_data)
           icon_w(k) == textbbox(stats[k].icon, F.icon_small)[3]
           text_w(k) == textbbox(stats[k].text, F.circuit_stats_value)[3]
           max_icon_width == MaxOf([k \in 1..Len(stats) |-> icon_w(k)])
           max_text_width == MaxOf([k \in 1..Len(stats) |-> text_w(k)])
           block_x == (DISPLAY_WIDTH - 5) - (max_icon_width + 4 + max_text_width)
           text_x == block_x + max_icon_width + 4
           y(k) == StatsYStart(Len(stats)) + ((k - 1) * layout.circuit_stats_row_height)
           line(j) == LET k == (j + 1) \div 2
                      IN  IF j % 2 = 1
                          THEN TextOp("stats", "icon", block_x + (max_icon_width - icon_w(k)),
                                      y(k), stats[k].icon)
                          ELSE TextOp("stats", "value", text_x, y(k), stats[k].text)
       IN  ops' = ops \o [j \in 1..(2 * Len(stats)) |-> line(j)]
    /\ pc' = "results"
    /\ UNCHANGED <<translator, family, race_data, historical_data, error_message,
                   image, n_images, row_y, idx, schedule_bottom, countdown_bottom, now,
                   result, fit, http, s3, bk, i18n, fetch, scheduler, naming, gen, api, serve, keying>>

-----------------------------------------------------------------------------
(* _draw_results_section and its helpers *)

\* the branch taken on the flag only while the result lists are empty
IsNewTrackUnlessResults(hist) ==
    ~hist.given \/ (hist.is_new_track /\ hist.qualifying_results = <<>>
                                      /\ hist.race_results = <<>>)

\* the branch "historical_data is None or historical_data.is_new_track"
IsNewTrack(hist) == ~hist.given \/ hist.is_new_track

\* _draw_new_track_message
NewTrackOps(tr, fam, y_start) ==
    LET message == TGet(tr, "new_track", <<"N", "E", "W", " ", "T", "R", "A", "C", "K">>)
        bbox == textbbox(message, fonts(fam).schedule_title)
        x == (DISPLAY_WIDTH - (bbox[3] - bbox[1])) \div 2
    IN  << TextOp("results", "new_track", x, y_start + 30, message) >>

\* the flag code with the first two characters taken as they are
IsoCodeKeepCase(country_name) ==
    IF country_name \in DOMAIN COUNTRY_MAP THEN COUNTRY_MAP[country_name]
    ELSE Prefix(country_name, 2)

\* the flag code of a country name: the table, else the first two characters
\* lowercased
IsoCode(country_name) ==
    IF country_name \in DOMAIN COUNTRY_MAP THEN Lower(COUNTRY_MAP[country_name])
    ELSE Lower(Prefix(country_name, 2))

\* the flag file FLAGS_DIR / f"{iso_code}.bmp", when it exists
FlagOf(country_name) ==
    LET code == IsoCode(country_name)
    IN  IF code = <<>> THEN FirstOf({})
        ELSE FirstOf({f \in FLAGS : f.stem = code /\ f.ext = "bmp"})

\* the flag's size after scaling to at most 80% of the header area width
FlagSize(flag) ==
    LET max_flag_width == (layout.results_col1_x * 8) \div 10
    IN  IF ~flag.found THEN [w |-> 0, h |-> 0]
        ELSE IF flag.file.w > max_flag_width
             THEN [w |-> max_flag_width, h |-> (flag.file.h * max_flag_width) \div flag.file.w]
        ELSE [w |-> flag.file.w, h |-> flag.file.h]

\* str(historical_data.season or "")
YearText(season) == IF season = 0 THEN <<>> ELSE Str(season)

\* visual_top of the year + flag block, centred in the footer
VisualTop(fam, y_start, season, country_name) ==
    LET bbox == textbbox(YearText(season), fonts(fam).results_year)
        text_h == bbox[4] - bbox[2]
        flag_h == FlagSize(FlagOf(country_name)).h
        footer_height == DISPLAY_HEIGHT - y_start
        total == text_h + (IF flag_h > 0 THEN 3 ELSE 0) + flag_h
    IN  y_start + ((footer_height - total) \div 2)

\* _draw_results_header: the year numeral, then the pasted flag and its border
ResultsHeaderOps(fam, y_start, season, country_name) ==
    LET year_text == YearText(season)
        bbox == textbbox(year_text, fonts(fam).results_year)
        header_area_w == layout.results_col1_x
        flag == FlagOf(country_name)
        size == FlagSize(flag)
        visual_top == VisualTop(fam, y_start, season, country_name)
        year_x == (header_area_w - (bbox[3] - bbox[1])) \div 2
        text_y == visual_top - bbox[2]
        x == (header_area_w - size.w) \div 2
        y == text_y + bbox[4] + 6
    IN  << TextOp("results", "year", year_x, text_y, year_text) >> \o
        (IF flag.found
         THEN << [ShapeOp("results", "paste", "flag", y, y + size.h) EXCEPT !.x = x],
                 [ShapeOp("results", "rect", "flag_border", y - 1, y + size.h)
                      EXCEPT !.x = x - 1] >>
         ELSE <<>>)

\* the list without the slice
RowsShownAll(results) == results

\* results[:3]
RowsShown(results) == Prefix(results, 3)

\* _draw_results_column: the title, then per entry the fitted text and the time
ResultsColumnOps(tr, fam, x_start, visual_top, col, title, results) ==
    LET font_title == fonts(fam).results_title
        font == fonts(fam).results_row
        header_y_anchor == visual_top - textbbox(TEXT_BASELINE_REF, font_title)[2]
        time_x == x_start + layout.results_time_offset
        header_visual_bottom == header_y_anchor + textbbox(<<"H", "g">>, font_title)[4]
        y_rows_start == (header_visual_bottom + layout.results_data_y_offset)
                        - textbbox(<<"1">>, font)[2]
        max_width == layout.results_time_offset - 10
        shown == RowsShown(results)
        row(i) == << TextOp(col, "row", x_start, y_rows_start + ((i - 1) * layout.results_row_height),
                            fit_text(font, max_width, shown[i].position, shown[i].driver,
                                     shown[i].team).text) >> \o
                  (IF shown[i].time # <<>>
                   THEN << TextOp(col, "time", time_x,
                                  y_rows_start + ((i - 1) * layout.results_row_height),
                                  shown[i].time) >>
                   ELSE <<>>)
        RECURSIVE rows(_)
        rows(i) == IF i > Len(shown) THEN <<>> ELSE row(i) \o rows(i + 1)
    IN  << TextOp(col, "title", x_start, header_y_anchor, title) >> \o rows(1)

\* everything _draw_results_section draws
ResultsSectionOps(tr, fam, race, hist) ==
    LET y_start == layout.results_y_start
        separator == << ShapeOp("results", "line", "separator", y_start, y_start) >>
        country == race.circuit.country
        visual_top == VisualTop(fam, y_start, hist.season, country)
    IN  IF IsNewTrack(hist) THEN separator \o NewTrackOps(tr, fam, y_start)
        ELSE separator \o
             ResultsHeaderOps(fam, y_start, hist.season, country) \o
             ResultsColumnOps(tr, fam, layout.results_col1_x, visual_top, "qualifying",
                              TGet(tr, "qualifying",
                                   <<"Q", "U", "A", "L", "I", "F", "Y", "I", "N", "G">>),
                              hist.qualifying_results) \o
             ResultsColumnOps(tr, fam, layout.results_col2_x, visual_top, "race",
                              TGet(tr, "race", <<"R", "A", "C", "E">>),
                              hist.race_results)

DrawResultsSection ==
    /\ pc = "results"
    /\ ops' = ops \o ResultsSectionOps(translator, family, race_data, historical_data)
    /\ pc' = "bmp"
    /\ UNCHANGED <<translator, family, race_data, historical_data, error_message,
                   image, n_images, row_y, idx, schedule_bottom, countdown_bottom, now,
                   result, fit, http, s3, bk, i18n, fetch, scheduler, naming, gen, api, serve, keying>>

\* return self._to_bmp(image)
RenderCalendarReturn ==
    /\ pc = "bmp"
    /\ result' = to_bmp(image, ops)
    /\ pc' = "done"
    /\ UNCHANGED <<translator, family, race_data, historical_data, error_message,
                   image, n_images, ops, row_y, idx, schedule_bottom, countdown_bottom,
                   now, fit, http, s3, bk, i18n, fetch, scheduler, naming, gen, api, serve, keying>>

-----------------------------------------------------------------------------
(* The specifications *)

NoResult == [ signature |-> "", width |-> 0, height |-> 0, bits |-> 0, length |-> 0,
              canvas |-> 0, content |-> <<>> ]

-----------------------------------------------------------------------------
(* main.py: the handler of GET /calendar.bmp, get_calendar_bmp *)

DEFAULT_LANG == "en"

\* the values of the lang query parameter tried
Langs == {"cs", "de"}

\* get_translator(lang)
get_translator(lang) == IF lang = "cs" THEN TrCs ELSE TrEn

\* str(e) of the exceptions tried: empty, short, and longer than 60 characters
ExcTexts == {Message(0), Message(7), Message(61)}

\* str(e) of the ValueError raised by datetime.fromisoformat
IsoErrorText == <<"I", "n", "v", "a", "l", "i", "d", " ", "i", "s", "o", "f", "o", "r", "m", "a", "t", " ", "s", "t", "r", "i", "n", "g">>

\* the message of the branch "if not race_data"
NoRaceText == <<"F", "a", "i", "l", "e", "d", " ", "t", "o", " ", "f", "e", "t", "c", "h", " ", "r", "a", "c", "e", " ", "d", "a", "t", "a">>

\* the race records found in the static data: an empty schedule, weekends
\* with and without a Race entry, and entries whose timestamp string is not
\* ISO (in a row, and in a Race entry past the row loop)
HttpRaces ==
    { RaceRecord(Monza, sched) :
        sched \in { <<>>,
                    ScheduleOf(3, 3, StandardRace, 0, NoDt),
                    ScheduleOf(2, 0, StandardRace, 0, NoDt),
                    ScheduleOf(3, 3, StandardRace, 1, BadStr),
                    ScheduleOf(7, 7, [name |-> "Race", datetime |-> BadStr], 0, NoDt) } }

\* the records F1Service.get_historical_from_static returns
HttpHistoricals ==
    { Historical(2024, FALSE, SubSeq(Podium, 1, 3), SubSeq(Podium, 1, 3)),
      Historical(0, TRUE, <<>>, <<>>) }

\* an image produced earlier: an entry of _bmp_cache or a pre-generated file
StoredBmp == to_bmp(NewCanvas(0), <<>>)

\* most /calendar.bmp requests in one run
MaxRequests == 2

\* _get_cache_key of a request, as far as the model tells requests apart: the
\* language and whether a year and round were given
CacheKeys == {"cs", "en"} \X BOOLEAN

\* what a stored image is, read off its content: the bytes of a pre-generated
\* file, an image of render_error, or an image of render_calendar
ImageKind(img) ==
    IF img = StoredBmp THEN "file"
    ELSE IF img.content # <<>> /\ img.content[1].sect = "error" THEN "error"
    ELSE "calendar"

\* cache: the kind of image _bmp_cache holds under each key, "none" without entry
HttpIdle ==
    [ pc |-> "idle", lang |-> DEFAULT_LANG, specific |-> FALSE, found |-> FALSE,
      race |-> NoRace, hist |-> NoHistorical, raised |-> FALSE, exc |-> <<>>,
      msg |-> <<>>, body |-> NoResult, requests |-> 0,
      cache |-> [k \in CacheKeys |-> "none"] ]

CachedAtEveryStep(step) == TRUE

\* the steps after which the handler assigns _bmp_cache[cache_key]
CachedAt(step) == step \in {"pregen", "call_render"}

\* _bmp_cache after the image of the step was produced
CacheAfter(step, img) ==
    IF CachedAt(step)
    THEN [http.cache EXCEPT ![<<http.lang, http.specific>>] = ImageKind(img)]
    ELSE http.cache

\* the steps of the handler at which a called function can raise
HttpSteps == {"stats", "cache", "pregen", "fetch", "historical", "finish"}

\* a try block that ends before the request is recorded
CatchesUntilRender(step) == step \in HttpSteps \cup {"call_render"} /\ step # "finish"

\* whether the step lies inside the try block of the handler
Catches(step) == step \in HttpSteps \cup {"call_render"}

\* the handler after an exception with str(e) = msg at the step: the except
\* clause when the try block covers the step, else out of the handler
Thrown(step, msg) ==
    IF Catches(step) THEN [http EXCEPT !.pc = "except", !.raised = TRUE, !.exc = msg]
    ELSE [http EXCEPT !.pc = "escaped", !.raised = TRUE, !.exc = msg]

\* Renderer(translator): a new object, nothing rendered yet
NewRenderer(tr) ==
    /\ pc' = "idle"
    /\ translator' = tr
    /\ race_data' = NoRace
    /\ historical_data' = NoHistorical
    /\ error_message' = <<>>
    /\ image' = NoImage
    /\ n_images' = 0
    /\ ops' = <<>>
    /\ row_y' = 0
    /\ idx' = 0
    /\ schedule_bottom' = 0
    /\ countdown_bottom' = 0
    /\ now' = 0
    /\ result' = NoResult
    /\ UNCHANGED <<family, fit, s3, bk, i18n, fetch, scheduler, naming, gen, api, serve, keying>>

\* a request arrives: lang is validated, the race is the next one or the one
\* of the given year and round
HttpRequest ==
    /\ http.pc \in {"idle", "responded"}
    /\ http.requests < MaxRequests
    /\ NewRenderer(translator)
    /\ \E lang \in Langs, specific \in BOOLEAN, race \in HttpRaces \cup {NoRace} :
          http' = [HttpIdle EXCEPT !.pc = "stats",
                                   !.lang = IF lang \in {"cs", "en"} THEN lang ELSE DEFAULT_LANG,
                                   !.specific = specific,
                                   !.found = (race # NoRace),
                                   !.race = race,
                                   !.requests = http.requests + 1,
                                   !.cache = http.cache]

\* the race lookup for the statistics
HttpStats ==
    /\ http.pc = "stats"
    /\ http' = [http EXCEPT !.pc = "cache"]
    /\ UNCHANGED <<rvars, fit, s3, bk, i18n, fetch, scheduler, naming, gen, api, serve, keying>>

\* _bmp_cache.get(cache_key): a hit is recorded and returned; an entry may have
\* expired (TTLCache)
HttpCache ==
    /\ http.pc = "cache"
    /\ \E hit \in BOOLEAN :
          http' = IF hit /\ http.cache[<<http.lang, http.specific>>] # "none"
                  THEN [http EXCEPT !.pc = "finish", !.body = StoredBmp]
                  ELSE [http EXCEPT !.pc = "pregen"]
    /\ UNCHANGED <<rvars, fit, s3, bk, i18n, fetch, scheduler, naming, gen, api, serve, keying>>

\* the pre-generated image of the next race, when its file exists
HttpPregenerated ==
    /\ http.pc = "pregen"
    /\ \E exists \in BOOLEAN :
          http' = IF ~http.specific /\ exists
                  THEN [http EXCEPT !.pc = "finish", !.body = StoredBmp,
                                    !.cache = CacheAfter("pregen", StoredBmp)]
                  ELSE [http EXCEPT !.pc = "fetch"]
    /\ UNCHANGED <<rvars, fit, s3, bk, i18n, fetch, scheduler, naming, gen, api, serve, keying>>

\* the race data from the static files and the timezone conversion
HttpFetch ==
    /\ http.pc = "fetch"
    /\ http' = [http EXCEPT !.pc = IF http.found THEN "historical" ELSE "no_race"]
    /\ UNCHANGED <<rvars, fit, s3, bk, i18n, fetch, scheduler, naming, gen, api, serve, keying>>

\* no race data: render_error("Failed to fetch race data")
HttpNoRace ==
    /\ http.pc = "no_race"
    /\ NewRenderer(get_translator(http.lang))
    /\ http' = [http EXCEPT !.pc = "call_error", !.msg = NoRaceText]

\* the historical lookup, then Renderer(translator)
HttpHistorical ==
    /\ http.pc = "historical"
    /\ NewRenderer(get_translator(http.lang))
    /\ \E hist \in HttpHistoricals :
          http' = [http EXCEPT !.pc = "call_render", !.hist = hist]

\* renderer.render_calendar(race_data, historical_data) is entered
HttpRenderCalendar ==
    /\ http.pc = "call_render"
    /\ pc = "idle"
    /\ RenderCalendarStart(http.race, http.hist)

\* render_calendar returned: the image is cached
HttpRenderReturned ==
    /\ http.pc = "call_render"
    /\ pc = "done"
    /\ http' = [http EXCEPT !.pc = "finish", !.body = result,
                            !.cache = CacheAfter("call_render", result)]
    /\ UNCHANGED <<rvars, fit, s3, bk, i18n, fetch, scheduler, naming, gen, api, serve, keying>>

\* render_calendar raised
HttpRenderRaised ==
    /\ http.pc = "call_render"
    /\ pc = "raised"
    /\ http' = Thrown("call_render", IsoErrorText)
    /\ UNCHANGED <<rvars, fit, s3, bk, i18n, fetch, scheduler, naming, gen, api, serve, keying>>

\* a function called at the current step raises
HttpRaise ==
    /\ http.pc \in HttpSteps
    /\ \E msg \in ExcTexts : http' = Thrown(http.pc, msg)
    /\ UNCHANGED <<rvars, fit, s3, bk, i18n, fetch, scheduler, naming, gen, api, serve, keying>>

\* except Exception as e: a new Renderer for render_error(str(e))
HttpExcept ==
    /\ http.pc = "except"
    /\ NewRenderer(get_translator(http.lang))
    /\ http' = [http EXCEPT !.pc = "call_error", !.msg = http.exc]

\* renderer.render_error(msg) is entered
HttpRenderError ==
    /\ http.pc = "call_error"
    /\ pc = "idle"
    /\ RenderErrorStart(http.msg)

\* render_error returned: in the except clause the response follows, in the
\* try block the request is recorded first
HttpErrorReturned ==
    /\ http.pc = "call_error"
    /\ pc = "error_done"
    /\ http' = [http EXCEPT !.pc = IF http.raised THEN "responded" ELSE "finish",
                            !.body = result,
                            !.cache = CacheAfter("call_error", result)]
    /\ UNCHANGED <<rvars, fit, s3, bk, i18n, fetch, scheduler, naming, gen, api, serve, keying>>

\* _record_api_call, track_calendar_analytics, and the response
HttpFinish ==
    /\ http.pc = "finish"
    /\ http' = [http EXCEPT !.pc = "responded"]
    /\ UNCHANGED <<rvars, fit, s3, bk, i18n, fetch, scheduler, naming, gen, api, serve, keying>>

-----------------------------------------------------------------------------
(* services/backup.py: cleanup_old_backups and the bucket it works on *)

\* most backup objects in a bucket whose dates are drawn one by one
MaxObjects == 3

\* keys one delete_objects request takes
DELETE_BATCH == 1000

\* values of config.BACKUP_RETENTION_DAYS (a non-negative integer)
RetentionDays == {0, 1, 30, 740000}

MinutesPerDay == 24 * 60

\* datetime.now(timezone.utc), in minutes since datetime.min: a day of 2024
BackupNow == (739000 * MinutesPerDay) + 17

cutoff_date(retention) == BackupNow - (retention * MinutesPerDay)

\* datetime - timedelta leaves the range of datetime: OverflowError
CutoffRaises(retention) == cutoff_date(retention) < 0

IsOldOrAtCutoff(obj, retention) == obj.LastModified <= cutoff_date(retention)

\* last_modified < cutoff_date
IsOld(obj, retention) == obj.LastModified < cutoff_date(retention)

\* an object of the bucket; prefixed: its key starts with BACKUP_FILENAME_PREFIX
Obj(key, prefixed, modified) ==
    [Key |-> key, prefixed |-> prefixed, LastModified |-> modified]

\* modification dates just before, at and just after the two cutoffs
Dates ==
    {cutoff_date(30) - 1, cutoff_date(30), cutoff_date(1) - 1, cutoff_date(1),
     cutoff_date(1) + 1}

\* another file of the bucket, older than every cutoff
Foreign == Obj(0, FALSE, cutoff_date(30) - 1)

\* the backups of a bucket in listing order, their dates drawn one by one
SmallListings ==
    UNION {[1..n -> Dates] : n \in 0..MaxObjects}

BackupsOf(dates) == [k \in 1..Len(dates) |-> Obj(k, TRUE, dates[k])]

\* n old backups, then one exactly at the 30-day cutoff and one newer
Bulk(n) ==
    [k \in 1..(n + 2) |->
        IF k <= n THEN Obj(k, TRUE, cutoff_date(30) - 1)
        ELSE IF k = n + 1 THEN Obj(k, TRUE, cutoff_date(30))
        ELSE Obj(k, TRUE, cutoff_date(1) + 1)]

BulkSizes == {DELETE_BATCH - 1, DELETE_BATCH, DELETE_BATCH + 1, (2 * DELETE_BATCH) + 1}

RECURSIVE Paginate(_, _)
\* the pages of list_objects_v2: the listed objects, size to a page
Paginate(objs, size) ==
    IF Len(objs) <= size THEN <<objs>>
    ELSE <<SubSeq(objs, 1, size)>> \o Paginate(SubSeq(objs, size + 1, Len(objs)), size)

\* what the bucket holds and how the paginator pages its backups
Buckets ==
    {[backups |-> BackupsOf(d), others |-> o, page |-> p] :
        d \in SmallListings, o \in {{}, {Foreign}}, p \in {1, 2}}
    \cup {[backups |-> Bulk(n), others |-> {}, page |-> DELETE_BATCH] : n \in BulkSizes}

ElementsOf(s) == {s[k] : k \in 1..Len(s)}

KeysOf(s) == [k \in 1..Len(s) |-> s[k].Key]

S3Idle ==
    [pc |-> "idle", retention |-> 0, client |-> FALSE, stored |-> {}, bucket |-> {},
     pages |-> <<>>, list_calls |-> 0, listed |-> {}, objects_to_delete |-> <<>>,
     i |-> 0, requests |-> <<>>, deleted_count |-> 0, raised |-> FALSE, result |-> 0]

\* cleanup_old_backups(s3_client) up to the paginator; client: a client was
\* passed or _get_s3_client() made one
\* the cutoff is computed before the try block: its OverflowError leaves the call
CleanupStart(retention, client, b) ==
    /\ s3.pc = "idle"
    /\ LET contents == ElementsOf(b.backups) \cup b.others
           called == [S3Idle EXCEPT !.retention = retention, !.client = client,
                                    !.stored = contents, !.bucket = contents]
       IN  s3' = IF retention <= 0 \/ ~client
                 THEN [called EXCEPT !.pc = "returned", !.result = 0]
                 ELSE IF CutoffRaises(retention)
                 THEN [called EXCEPT !.pc = "raised"]
                 ELSE [called EXCEPT !.pc = "list",
                                     !.pages = Paginate(b.backups, b.page)]

CleanupCall ==
    /\ \E retention \in RetentionDays, client \in BOOLEAN, b \in Buckets :
        CleanupStart(retention, client, b)
    /\ UNCHANGED <<rvars, fit, http, bk, i18n, fetch, scheduler, naming, gen, api, serve, keying>>

\* one page of the listing: its objects older than the cutoff are marked
CleanupListPage ==
    /\ s3.pc = "list"
    /\ s3.pages # <<>>
    /\ LET page == Head(s3.pages)
           old == SelectSeq(page, LAMBDA obj : IsOld(obj, s3.retention))
       IN  s3' = [s3 EXCEPT !.pages = Tail(s3.pages),
                            !.list_calls = s3.list_calls + 1,
                            !.listed = s3.listed \cup ElementsOf(page),
                            !.objects_to_delete = s3.objects_to_delete \o KeysOf(old)]
    /\ UNCHANGED <<rvars, fit, http, bk, i18n, fetch, scheduler, naming, gen, api, serve, keying>>

\* the listing is exhausted: if objects_to_delete
CleanupListed ==
    /\ s3.pc = "list"
    /\ s3.pages = <<>>
    /\ s3' = [s3 EXCEPT !.pc = IF s3.objects_to_delete # <<>> THEN "delete" ELSE "return"]
    /\ UNCHANGED <<rvars, fit, http, bk, i18n, fetch, scheduler, naming, gen, api, serve, keying>>

BatchAt(objects, i) == SubSeq(objects, i + 1, Min(i + DELETE_BATCH, Len(objects)))

\* one delete_objects request: S3 removes the keys of the batch
CleanupDeleteBatch ==
    /\ s3.pc = "delete"
    /\ LET batch == BatchAt(s3.objects_to_delete, s3.i)
           keys == ElementsOf(batch)
           next == s3.i + DELETE_BATCH
       IN  s3' = [s3 EXCEPT !.bucket = {obj \in s3.bucket :
                                           ~(obj.prefixed /\ obj.Key \in keys)},
                            !.requests = Append(s3.requests, batch),
                            !.deleted_count = s3.deleted_count + Len(batch),
                            !.i = next,
                            !.pc = IF next < Len(s3.objects_to_delete)
                                   THEN "delete" ELSE "return"]
    /\ UNCHANGED <<rvars, fit, http, bk, i18n, fetch, scheduler, naming, gen, api, serve, keying>>

\* the request for a page or a delete_objects request raises: except Exception
\* logs it
CleanupRaise ==
    /\ (s3.pc = "list" /\ s3.pages # <<>>) \/ s3.pc = "delete"
    /\ s3' = [s3 EXCEPT !.pc = "return", !.raised = TRUE]
    /\ UNCHANGED <<rvars, fit, http, bk, i18n, fetch, scheduler, naming, gen, api, serve, keying>>

\* return deleted_count
CleanupReturn ==
    /\ s3.pc = "return"
    /\ s3' = [s3 EXCEPT !.pc = "returned", !.result = s3.deleted_count]
    /\ UNCHANGED <<rvars, fit, http, bk, i18n, fetch, scheduler, naming, gen, api, serve, keying>>

\* the settings is_backup_configured and _get_s3_client read, as truth values
BackupConfig(enabled, endpoint, key_id, secret, bucket_name) ==
    [BACKUP_ENABLED |-> enabled, S3_ENDPOINT_URL |-> endpoint, S3_ACCESS_KEY_ID |-> key_id,
     S3_SECRET_ACCESS_KEY |-> secret, S3_BUCKET_NAME |-> bucket_name]

\* every setting present, and each one missing in turn
BackupConfigs ==
    {BackupConfig(TRUE, TRUE, TRUE, TRUE, TRUE), BackupConfig(FALSE, TRUE, TRUE, TRUE, TRUE),
     BackupConfig(TRUE, FALSE, TRUE, TRUE, TRUE), BackupConfig(TRUE, TRUE, FALSE, TRUE, TRUE),
     BackupConfig(TRUE, TRUE, TRUE, FALSE, TRUE), BackupConfig(TRUE, TRUE, TRUE, TRUE, FALSE)}

is_backup_configured(cfg) ==
    IF ~cfg.BACKUP_ENABLED THEN FALSE
    ELSE /\ cfg.S3_ENDPOINT_URL
         /\ cfg.S3_ACCESS_KEY_ID
         /\ cfg.S3_SECRET_ACCESS_KEY
         /\ cfg.S3_BUCKET_NAME

\* TRUE: a client is returned; FALSE: None. boto3: the package can be imported
get_s3_client(cfg, boto3) ==
    IF ~cfg.S3_ENDPOINT_URL THEN FALSE
    ELSE IF ~cfg.S3_ACCESS_KEY_ID \/ ~cfg.S3_SECRET_ACCESS_KEY THEN FALSE
    ELSE IF ~cfg.S3_BUCKET_NAME THEN FALSE
    ELSE boto3

\* temp: "none", "present", "removed", or "left" when os.remove failed
BkIdle ==
    [pc |-> "idle", retention |-> 0, temp |-> "none", uploads |-> 0, cleanups |-> 0,
     raised |-> "none", result |-> FALSE]

\* perform_backup() up to the try block
PerformCall ==
    /\ bk.pc = "idle"
    /\ \E cfg \in BackupConfigs, db_exists \in BOOLEAN, boto3 \in BOOLEAN,
          retention \in RetentionDays :
        LET called == [BkIdle EXCEPT !.retention = retention]
        IN  bk' = IF ~is_backup_configured(cfg) \/ ~db_exists \/ ~get_s3_client(cfg, boto3)
                  THEN [called EXCEPT !.pc = "returned", !.result = FALSE]
                  ELSE [called EXCEPT !.pc = "mkstemp"]
    /\ UNCHANGED <<rvars, fit, http, s3, i18n, fetch, scheduler, naming, gen, api, serve, keying>>

\* tempfile.mkstemp, os.close
PerformMkstemp ==
    /\ bk.pc = "mkstemp"
    /\ bk' = [bk EXCEPT !.pc = "copy", !.temp = "present"]
    /\ UNCHANGED <<rvars, fit, http, s3, i18n, fetch, scheduler, naming, gen, api, serve, keying>>

\* shutil.copy2, generate_backup_filename, os.path.getsize
PerformCopy ==
    /\ bk.pc = "copy"
    /\ bk' = [bk EXCEPT !.pc = "upload"]
    /\ UNCHANGED <<rvars, fit, http, s3, i18n, fetch, scheduler, naming, gen, api, serve, keying>>

\* s3_client.upload_file went through; without retention return True follows
PerformUpload ==
    /\ bk.pc = "upload"
    /\ bk' = [bk EXCEPT !.uploads = bk.uploads + 1,
                        !.pc = IF bk.retention > 0 THEN "cleanup" ELSE "finally",
                        !.result = TRUE]
    /\ UNCHANGED <<rvars, fit, http, s3, i18n, fetch, scheduler, naming, gen, api, serve, keying>>

\* cleanup_old_backups(s3_client) is entered
PerformCleanup ==
    /\ bk.pc = "cleanup"
    /\ \E b \in Buckets : CleanupStart(bk.retention, TRUE, b)
    /\ bk' = [bk EXCEPT !.pc = "in_cleanup", !.cleanups = bk.cleanups + 1]
    /\ UNCHANGED <<rvars, fit, http, i18n, fetch, scheduler, naming, gen, api, serve, keying>>

\* cleanup_old_backups returned: return True
PerformCleanupReturned ==
    /\ bk.pc = "in_cleanup"
    /\ s3.pc = "returned"
    /\ bk' = [bk EXCEPT !.pc = "finally", !.result = TRUE]
    /\ UNCHANGED <<rvars, fit, http, s3, i18n, fetch, scheduler, naming, gen, api, serve, keying>>

\* cleanup_old_backups raised: except Exception, return False
PerformCleanupRaised ==
    /\ bk.pc = "in_cleanup"
    /\ s3.pc = "raised"
    /\ bk' = [bk EXCEPT !.pc = "finally", !.result = FALSE, !.raised = "cleanup"]
    /\ UNCHANGED <<rvars, fit, http, s3, i18n, fetch, scheduler, naming, gen, api, serve, keying>>

\* mkstemp, the copy or the upload raises: except Exception, return False
PerformRaise ==
    /\ bk.pc \in {"mkstemp", "copy", "upload"}
    /\ bk' = [bk EXCEPT !.pc = "finally", !.result = FALSE, !.raised = bk.pc]
    /\ UNCHANGED <<rvars, fit, http, s3, i18n, fetch, scheduler, naming, gen, api, serve, keying>>

\* finally: os.remove(temp_path) when the copy exists; its OSError is logged
PerformFinally ==
    /\ bk.pc = "finally"
    /\ \E removed \in BOOLEAN :
        bk' = [bk EXCEPT !.pc = "returned",
                         !.temp = IF bk.temp # "present" THEN bk.temp
                                  ELSE IF removed THEN "removed" ELSE "left"]
    /\ UNCHANGED <<rvars, fit, http, s3, i18n, fetch, scheduler, naming, gen, api, serve, keying>>

-----------------------------------------------------------------------------
(* services/i18n.py: get_translator with its module-level cache *)

\* most get_translator calls in one run
MaxCalls == 4

\* depth at which Python ends the recursion with RecursionError
RecursionLimit == 3

\* language codes passed to get_translator or set as config.DEFAULT_LANG
I18nLangs == {"en", "cs", "zz"}

\* a translation file: absent, valid JSON, or one that cannot be read or parsed
FileStates == {"none", "valid", "corrupt"}

\* the dict returned by "return {}"
EmptyTable == <<>>

\* no entry of _translations_cache
NotCached == <<"absent">>

\* the dict object made by the n-th json.load, read from the file of lang
LoadedTable(lang, n) == <<lang, n>>

I18nIdle ==
    [pc |-> "idle", files |-> [l \in I18nLangs |-> "none"], default |-> "en",
     cache |-> [l \in I18nLangs |-> NotCached], loads |-> 0, calls |-> 0,
     lang |-> "en", result |-> EmptyTable, hit |-> FALSE,
     first |-> [l \in I18nLangs |-> NotCached]]

CacheKept(st, lang, table) == st.cache

\* _translations_cache[lang] = translations
CacheStore(st, lang, table) == [st.cache EXCEPT ![lang] = table]

RECURSIVE Lookup(_, _, _)
\* get_translator(lang) at the given depth of recursion: the state after the call,
\* its field result the returned dict. A missing file recurs with DEFAULT_LANG; the
\* RecursionError that ends a recursion without a file is caught by "except
\* Exception" and {} is returned through every frame
Lookup(st, lang, depth) ==
    IF st.cache[lang] # NotCached
    THEN [st EXCEPT !.result = st.cache[lang]]
    ELSE IF st.files[lang] = "valid"
    THEN LET translations == LoadedTable(lang, st.loads + 1)
         IN  [st EXCEPT !.cache = CacheStore(st, lang, translations),
                        !.loads = st.loads + 1,
                        !.result = translations]
    ELSE IF st.files[lang] = "corrupt"
    THEN [st EXCEPT !.result = EmptyTable]
    ELSE IF depth >= RecursionLimit
    THEN [st EXCEPT !.result = EmptyTable]
    ELSE Lookup(st, st.default, depth + 1)

\* the deployment: which translation files exist, and config.DEFAULT_LANG
I18nDeploy ==
    /\ i18n.pc = "idle"
    /\ \E files \in [I18nLangs -> FileStates], default \in I18nLangs :
        i18n' = [I18nIdle EXCEPT !.pc = "ready", !.files = files, !.default = default]
    /\ UNCHANGED <<rvars, fit, http, s3, bk, fetch, scheduler, naming, gen, api, serve, keying>>

\* one call get_translator(lang); hit: lang was cached when the call began; first:
\* the table of the first call that loaded the file of each language
I18nCall ==
    /\ i18n.pc = "ready"
    /\ i18n.calls < MaxCalls
    /\ \E lang \in I18nLangs :
        LET after == Lookup(i18n, lang, 0)
        IN  i18n' = [after EXCEPT
                        !.calls = i18n.calls + 1,
                        !.lang = lang,
                        !.hit = i18n.cache[lang] # NotCached,
                        !.first = [l \in I18nLangs |->
                                      IF i18n.first[l] = NotCached /\ after.loads > i18n.loads
                                         /\ after.result = LoadedTable(l, after.loads)
                                      THEN after.result ELSE i18n.first[l]]]
    /\ UNCHANGED <<rvars, fit, http, s3, bk, fetch, scheduler, naming, gen, api, serve, keying>>

-----------------------------------------------------------------------------
(* services/f1_service.py: _fetch_with_retry *)

MAX_RETRIES == 3

\* seconds
RETRY_BASE_DELAY == 1

\* largest max_retries passed to _fetch_with_retry
MaxRetriesTried == 4

\* HTTP status codes of the responses tried; "error": client.get raises an
\* exception that is no HTTPStatusError (timeout, connection refused)
Statuses == {200, 201, 301, 400, 404, 429, 500, 503}

Urls == {"current/next", "results"}

\* response.raise_for_status() returns for 2xx only
IsSuccess(status) == status >= 200 /\ status <= 299

RECURSIVE Pow2(_)
Pow2(n) == IF n <= 0 THEN 1 ELSE 2 * Pow2(n - 1)

DelayLinear(attempt) == RETRY_BASE_DELAY * (attempt + 1)

\* RETRY_BASE_DELAY * (2**attempt)
Delay(attempt) == RETRY_BASE_DELAY * Pow2(attempt)

\* outcome: "none", "returned", "raised" (an HTTPStatusError), "error" (another
\* exception of client.get), "assert" (the assert after the loop)
FetchIdle ==
    [pc |-> "idle", url |-> "results", max_retries |-> MAX_RETRIES, attempt |-> 0,
     responses |-> <<>>, sleeps |-> <<>>, last_exception |-> 0, outcome |-> "none",
     status |-> 0]

\* _fetch_with_retry(client, url, max_retries): for attempt in range(max_retries + 1)
FetchCall ==
    /\ fetch.pc = "idle"
    /\ \E url \in Urls, max_retries \in -1..MaxRetriesTried :
        fetch' = [FetchIdle EXCEPT !.url = url, !.max_retries = max_retries,
                                   !.pc = IF max_retries + 1 > 0 THEN "loop" ELSE "after"]
    /\ UNCHANGED <<rvars, fit, http, s3, bk, i18n, scheduler, naming, gen, api, serve, keying>>

\* one iteration: client.get answers with a status
FetchGet ==
    /\ fetch.pc = "loop"
    /\ \E status \in Statuses :
        LET got == [fetch EXCEPT !.responses = Append(fetch.responses, status)]
        IN  fetch' =
              IF IsSuccess(status)
              THEN [got EXCEPT !.pc = "done", !.outcome = "returned", !.status = status]
              ELSE IF status = 429 /\ fetch.attempt < fetch.max_retries
              THEN [got EXCEPT !.last_exception = status,
                               !.sleeps = Append(fetch.sleeps, Delay(fetch.attempt)),
                               !.attempt = fetch.attempt + 1]
              ELSE [got EXCEPT !.pc = "done", !.outcome = "raised", !.status = status,
                               !.last_exception =
                                   IF status = 429 THEN status ELSE fetch.last_exception]
    /\ UNCHANGED <<rvars, fit, http, s3, bk, i18n, scheduler, naming, gen, api, serve, keying>>

\* one iteration: client.get raises an exception that is no HTTPStatusError
FetchGetFails ==
    /\ fetch.pc = "loop"
    /\ fetch' = [fetch EXCEPT !.responses = Append(fetch.responses, 0),
                              !.pc = "done", !.outcome = "error"]
    /\ UNCHANGED <<rvars, fit, http, s3, bk, i18n, scheduler, naming, gen, api, serve, keying>>

\* the loop ran no iteration: assert last_exception is not None
FetchAfterLoop ==
    /\ fetch.pc = "after"
    /\ fetch' = [fetch EXCEPT !.pc = "done", !.outcome = "assert"]
    /\ UNCHANGED <<rvars, fit, http, s3, bk, i18n, scheduler, naming, gen, api, serve, keying>>

-----------------------------------------------------------------------------
(* services/scheduler.py: start_scheduler and stop_scheduler *)

\* most start_scheduler and stop_scheduler calls in one run
MaxSchedCalls == 5

\* scheduler = None
NoScheduler == 0

\* before: the state at the last call; global: the module variable scheduler, the
\* number of the AsyncIOScheduler it holds; live: schedulers started and not shut
\* down; jobs: the add_job calls made, as <<scheduler, job id>> with their count
SchedIdle ==
    [pc |-> "idle", enabled |-> FALSE, backup |-> FALSE, cron_ok |-> TRUE,
     global |-> NoScheduler, made |-> 0, live |-> {}, jobs |-> EmptyBag, calls |-> 0,
     op |-> "none", outcome |-> "none", global_before |-> NoScheduler,
     live_before |-> {}, made_before |-> 0, jobs_before |-> EmptyBag]

\* the configuration: SCHEDULER_ENABLED, is_backup_configured(), and whether
\* CronTrigger accepts the fields of BACKUP_CRON
SchedDeploy ==
    /\ scheduler.pc = "idle"
    /\ \E enabled \in BOOLEAN, backup \in BOOLEAN, cron_ok \in BOOLEAN :
        scheduler' = [SchedIdle EXCEPT !.pc = "ready", !.enabled = enabled,
                                   !.backup = backup, !.cron_ok = cron_ok]
    /\ UNCHANGED <<rvars, fit, http, s3, bk, i18n, fetch, naming, gen, api, serve, keying>>

Called(op) ==
    [scheduler EXCEPT !.calls = scheduler.calls + 1, !.op = op, !.outcome = "returned",
                  !.global_before = scheduler.global, !.live_before = scheduler.live,
                  !.made_before = scheduler.made, !.jobs_before = scheduler.jobs]

AddJob(jobs, id, job) == jobs (+) SetToBag({<<id, job>>})

\* start_scheduler(): the global is assigned before the jobs are added; a
\* BACKUP_CRON that CronTrigger rejects raises ValueError in _register_backup_job
StartScheduler ==
    /\ scheduler.pc = "ready"
    /\ scheduler.calls < MaxSchedCalls
    /\ LET c == Called("start")
           id == scheduler.made + 1
           two == AddJob(AddJob(scheduler.jobs, id, "hourly_generation"), id, "flush_api_calls")
       IN  scheduler' =
             IF ~scheduler.enabled THEN c
             ELSE IF scheduler.global # NoScheduler THEN c
             ELSE IF scheduler.backup /\ ~scheduler.cron_ok
             THEN [c EXCEPT !.global = id, !.made = id, !.jobs = two,
                            !.outcome = "raised"]
             ELSE [c EXCEPT !.global = id, !.made = id,
                            !.jobs = IF scheduler.backup THEN AddJob(two, id, "s3_backup")
                                     ELSE two,
                            !.live = scheduler.live \cup {id}]
    /\ UNCHANGED <<rvars, fit, http, s3, bk, i18n, fetch, naming, gen, api, serve, keying>>

\* stop_scheduler(): shutdown() of a scheduler that was never started either
\* raises before the global is reset, or only fails later in the event loop and
\* the global is reset, depending on the APScheduler release
StopScheduler ==
    /\ scheduler.pc = "ready"
    /\ scheduler.calls < MaxSchedCalls
    /\ \E raises \in BOOLEAN :
        LET c == Called("stop")
        IN  scheduler' =
              IF scheduler.global = NoScheduler THEN c
              ELSE IF scheduler.global \in scheduler.live
              THEN [c EXCEPT !.live = scheduler.live \ {scheduler.global},
                             !.global = NoScheduler]
              ELSE IF raises THEN [c EXCEPT !.outcome = "raised"]
              ELSE [c EXCEPT !.global = NoScheduler]
    /\ UNCHANGED <<rvars, fit, http, s3, bk, i18n, fetch, naming, gen, api, serve, keying>>

-----------------------------------------------------------------------------
(* The name of a pre-generated image: main.get_calendar_bmp and
   scheduler._get_image_key *)

\* longest timezone string drawn character by character
MaxTzLen == 3

DEFAULT_TIMEZONE == <<"E", "u", "r", "o", "p", "e", "/", "P", "r", "a", "g", "u", "e">>

\* a value of the tz parameter: None, or a string
NoTz == [given |-> FALSE, text |-> <<>>]

TzStr(text) == [given |-> TRUE, text |-> text]

TzChars == {"/", "_", ".", "U"}

TzValues ==
    {NoTz, TzStr(DEFAULT_TIMEZONE),
     TzStr(<<"A", "m", "e", "r", "i", "c", "a", "/", "N", "e", "w", "_", "Y", "o", "r", "k">>),
     TzStr(<<"d", "e", "f", "a", "u", "l", "t">>)}
    \cup {TzStr(t) : t \in UNION {[1..n -> TzChars] : n \in 0..MaxTzLen}}

\* truth value of "tz" in "tz or ..." and "if tz and ..."
Truthy(tz) == tz.given /\ tz.text # <<>>

ReplaceNothing(text) == text

\* str.replace("/", "_")
SlashToUnderscore(text) == [k \in 1..Len(text) |-> IF text[k] = "/" THEN "_" ELSE text[k]]

\* f"calendar_{lang}"
CalendarPrefix(lang) == <<"c", "a", "l", "e", "n", "d", "a", "r", "_">> \o lang

\* main.get_calendar_bmp: image_key
HandlerImageKey(lang, tz) ==
    LET target_tz_for_key == IF Truthy(tz) THEN tz.text ELSE DEFAULT_TIMEZONE
    IN  IF target_tz_for_key # DEFAULT_TIMEZONE
        THEN CalendarPrefix(lang) \o <<"_">> \o SlashToUnderscore(target_tz_for_key)
        ELSE CalendarPrefix(lang)

\* scheduler._get_image_key(lang, tz)
get_image_key(lang, tz) ==
    IF Truthy(tz) /\ tz.text # DEFAULT_TIMEZONE
    THEN CalendarPrefix(lang) \o <<"_">> \o SlashToUnderscore(tz.text)
    ELSE CalendarPrefix(lang)

NamingIdle ==
    [pc |-> "idle", lang |-> <<>>, tz |-> NoTz, handler |-> <<>>, scheduler |-> <<>>]

\* both functions are given the same language and timezone
NamingCall ==
    /\ naming.pc = "idle"
    /\ \E lang \in {<<"e", "n">>, <<"c", "s">>}, tz \in TzValues :
        naming' = [NamingIdle EXCEPT !.pc = "called", !.lang = lang, !.tz = tz]
    /\ UNCHANGED <<rvars, fit, http, s3, bk, i18n, fetch, scheduler, gen, api, serve, keying>>

NamingReturn ==
    /\ naming.pc = "called"
    /\ naming' = [naming EXCEPT !.pc = "returned",
                                !.handler = HandlerImageKey(naming.lang, naming.tz),
                                !.scheduler = get_image_key(naming.lang, naming.tz)]
    /\ UNCHANGED <<rvars, fit, http, s3, bk, i18n, fetch, scheduler, gen, api, serve, keying>>

-----------------------------------------------------------------------------
(* services/scheduler.py: collect_and_generate *)

SUPPORTED_LANGUAGES == << <<"e", "n">>, <<"c", "s">> >>

NewYork == TzStr(<<"A", "m", "e", "r", "i", "c", "a", "/", "N", "e", "w", "_", "Y", "o", "r", "k">>)

\* names of the image files a run can find in IMAGES_PATH
ImageFiles ==
    {get_image_key(<<"e", "n">>, NoTz), get_image_key(<<"c", "s">>, NoTz),
     get_image_key(<<"e", "n">>, NewYork)}

\* db.get_popular_tz_variants(...): none, one, or one of an unsupported language
\* followed by one
PopularVariants ==
    { <<>>,
      << [lang |-> <<"e", "n">>, tz |-> NewYork] >>,
      << [lang |-> <<"d", "e">>, tz |-> NewYork], [lang |-> <<"c", "s">>, tz |-> NewYork] >> }

\* files: the BMP files in IMAGES_PATH; cache: the keys _bmp_cache holds
GenIdle ==
    [pc |-> "idle", files |-> {}, cache |-> {}, found |-> FALSE, variants |-> <<>>,
     todo |-> <<>>, deleted |-> 0, cleared |-> FALSE, outcome |-> "none"]

\* the hourly job starts: Database(), F1Service(), images_dir.mkdir
GenStart ==
    /\ gen.pc = "idle"
    /\ \E files \in SUBSET ImageFiles, cache \in SUBSET {<<"en", FALSE>>, <<"cs", FALSE>>},
          found \in BOOLEAN, variants \in PopularVariants :
        gen' = [GenIdle EXCEPT !.pc = "delete", !.files = files, !.cache = cache,
                               !.found = found, !.variants = variants]
    /\ UNCHANGED <<rvars, fit, http, s3, bk, i18n, fetch, scheduler, naming, api, serve, keying>>

\* for bmp_file in images_dir.glob("*.bmp"): bmp_file.unlink()
GenDeleteFile ==
    /\ gen.pc = "delete"
    /\ \E f \in gen.files :
        gen' = [gen EXCEPT !.files = gen.files \ {f}, !.deleted = gen.deleted + 1]
    /\ UNCHANGED <<rvars, fit, http, s3, bk, i18n, fetch, scheduler, naming, api, serve, keying>>

\* get_next_race_from_static(): without a race the job returns
GenNextRace ==
    /\ gen.pc = "delete"
    /\ gen.files = {}
    /\ gen' = IF gen.found THEN [gen EXCEPT !.pc = "default", !.todo = SUPPORTED_LANGUAGES]
              ELSE [gen EXCEPT !.pc = "ended", !.outcome = "no_race"]
    /\ UNCHANGED <<rvars, fit, http, s3, bk, i18n, fetch, scheduler, naming, api, serve, keying>>

\* one default image is rendered, written and recorded
GenDefaultImage ==
    /\ gen.pc = "default"
    /\ gen.todo # <<>>
    /\ gen' = [gen EXCEPT !.files = gen.files \cup {get_image_key(Head(gen.todo), NoTz)},
                          !.todo = Tail(gen.todo)]
    /\ UNCHANGED <<rvars, fit, http, s3, bk, i18n, fetch, scheduler, naming, api, serve, keying>>

\* db.get_popular_tz_variants
GenVariantsRead ==
    /\ gen.pc = "default"
    /\ gen.todo = <<>>
    /\ gen' = [gen EXCEPT !.pc = "variants"]
    /\ UNCHANGED <<rvars, fit, http, s3, bk, i18n, fetch, scheduler, naming, api, serve, keying>>

\* one timezone variant: skipped for an unsupported language, else written
GenVariant ==
    /\ gen.pc = "variants"
    /\ gen.variants # <<>>
    /\ LET variant == Head(gen.variants)
           supported == \E k \in 1..Len(SUPPORTED_LANGUAGES) :
                            SUPPORTED_LANGUAGES[k] = variant.lang
       IN  gen' = [gen EXCEPT !.variants = Tail(gen.variants),
                              !.files = IF supported
                                        THEN gen.files \cup {get_image_key(variant.lang, variant.tz)}
                                        ELSE gen.files]
    /\ UNCHANGED <<rvars, fit, http, s3, bk, i18n, fetch, scheduler, naming, api, serve, keying>>

\* set_cache_meta, clear_bmp_cache(), cleanup_old_stats
GenFinish ==
    /\ gen.pc = "variants"
    /\ gen.variants = <<>>
    /\ gen' = [gen EXCEPT !.pc = "ended", !.outcome = "completed", !.cache = {},
                          !.cleared = TRUE]
    /\ UNCHANGED <<rvars, fit, http, s3, bk, i18n, fetch, scheduler, naming, api, serve, keying>>

\* an exception while deleting, looking up, rendering, writing or querying the
\* database: except Exception logs it
GenRaise ==
    /\ gen.pc \in {"delete", "default", "variants"}
    /\ gen' = [gen EXCEPT !.pc = "ended", !.outcome = "failed"]
    /\ UNCHANGED <<rvars, fit, http, s3, bk, i18n, fetch, scheduler, naming, api, serve, keying>>

-----------------------------------------------------------------------------
(* main.py: the API calls buffer; services/scheduler.py: flush_api_calls_to_db *)

\* calls recorded in one behaviour
MaxApiCalls == 4

\* buffer: _api_calls_buffer, calls numbered in the order _record_api_call made
\* them; calls: the local list of the running flush job; table: the rows of
\* api_calls
ApiIdle ==
    [pc |-> "idle", buffer |-> <<>>, calls |-> <<>>, table |-> <<>>, recorded |-> 0,
     failed |-> 0]

\* _record_api_call: the call is appended to the buffer
RecordApiCall ==
    /\ api.recorded < MaxApiCalls
    /\ api' = [api EXCEPT !.recorded = api.recorded + 1,
                          !.buffer = Append(api.buffer, api.recorded + 1)]
    /\ UNCHANGED <<rvars, fit, http, s3, bk, i18n, fetch, scheduler, naming, gen, serve, keying>>

\* flush_api_calls_to_db up to its await: get_and_clear_api_calls_buffer copies
\* the buffer and replaces it by an empty list; with no calls the job ends
FlushStart ==
    /\ api.pc = "idle"
    /\ api' = [api EXCEPT !.calls = api.buffer, !.buffer = <<>>,
                          !.pc = IF api.buffer = <<>> THEN "idle" ELSE "saving"]
    /\ UNCHANGED <<rvars, fit, http, s3, bk, i18n, fetch, scheduler, naming, gen, serve, keying>>

\* save_api_calls_batch: executemany and commit insert every call of the list
FlushSaved ==
    /\ api.pc = "saving"
    /\ api' = [api EXCEPT !.table = api.table \o api.calls, !.calls = <<>>, !.pc = "idle"]
    /\ UNCHANGED <<rvars, fit, http, s3, bk, i18n, fetch, scheduler, naming, gen, serve, keying>>

\* save_api_calls_batch raises before the commit (database locked, disk full):
\* nothing is inserted, except Exception logs it and the list is dropped
FlushFails ==
    /\ api.pc = "saving"
    /\ api' = [api EXCEPT !.calls = <<>>, !.pc = "idle", !.failed = api.failed + 1]
    /\ UNCHANGED <<rvars, fit, http, s3, bk, i18n, fetch, scheduler, naming, gen, serve, keying>>

\* how often call n occurs in a list
Occurrences(list, n) == Cardinality({k \in 1..Len(list) : list[k] = n})

-----------------------------------------------------------------------------
(* main.py: get_calendar_bmp serving a pre-generated file while
   collect_and_generate runs on the same event loop *)

\* requests in one behaviour
MaxServes == 2

ServeIdle == [pc |-> "idle", key |-> <<>>, served |-> 0]

\* the job is at an await, or has not begun: the delete loop has no await, so
\* no request runs between two unlink calls
JobYields == gen.pc # "idle" /\ ~(gen.pc = "delete" /\ gen.deleted > 0)

\* a request for the next race that missed the cache: image_path.exists(),
\* read_bytes, _bmp_cache[cache_key] = bmp_data, _record_api_call; without the
\* file the image is generated on the fly
ServeRequest ==
    /\ serve.pc \in {"idle", "sent", "send_failed", "on_the_fly"}
    /\ serve.served < MaxServes
    /\ JobYields
    /\ \E lang \in {<<"e", "n">>, <<"c", "s">>}, tz \in {NoTz, NewYork} :
        LET image_key == HandlerImageKey(lang, tz)
        IN  serve' = [pc |-> IF image_key \in gen.files THEN "analytics" ELSE "on_the_fly",
                      key |-> image_key, served |-> serve.served + 1]
    /\ UNCHANGED <<rvars, fit, http, s3, bk, i18n, fetch, scheduler, naming, gen, api, keying>>

\* await track_calendar_analytics() is over: return FileResponse(path=...)
ServeAnalytics ==
    /\ serve.pc = "analytics"
    /\ JobYields
    /\ serve' = [serve EXCEPT !.pc = "returned"]
    /\ UNCHANGED <<rvars, fit, http, s3, bk, i18n, fetch, scheduler, naming, gen, api, keying>>

\* the server sends the response: FileResponse stats and opens the path
ServeSend ==
    /\ serve.pc = "returned"
    /\ JobYields
    /\ serve' = [serve EXCEPT !.pc = IF serve.key \in gen.files THEN "sent" ELSE "send_failed"]
    /\ UNCHANGED <<rvars, fit, http, s3, bk, i18n, fetch, scheduler, naming, gen, api, keying>>

-----------------------------------------------------------------------------
(* main.py: _get_cache_key and what get_calendar_bmp selects for a request *)

\* a value of the year or round parameter: None, or an integer
NoInt == [given |-> FALSE, n |-> 0]

IntVal(n) == [given |-> TRUE, n |-> n]

\* truth value of "year" in "year or 'next'" and "if year and round"
IntTruthy(v) == v.given /\ v.n # 0

UTC == <<"U", "T", "C">>

\* the names pytz.timezone accepts, of those tried; any other name raises
\* UnknownTimeZoneError
KnownZones == {DEFAULT_TIMEZONE, UTC, NewYork.text}

\* the values of the tz parameter tried: None, "", "default", zone names and an
\* unknown name
KeyTzValues ==
    {NoTz, TzStr(<<>>), TzStr(<<"d", "e", "f", "a", "u", "l", "t">>), TzStr(UTC),
     TzStr(DEFAULT_TIMEZONE), TzStr(<<"M", "a", "r", "s">>)}

\* a request: the query parameters, and whether the pre-generated file it would
\* be served from exists
KeyRequests ==
    [lang : {<<"e", "n">>, <<"d", "e">>},
     year : {NoInt, IntVal(0), IntVal(2025)},
     round : {NoInt, IntVal(0), IntVal(5)},
     tz : KeyTzValues,
     file : BOOLEAN]

\* f"{year or 'next'}"
OrNext(v) == IF IntTruthy(v) THEN Str(v.n) ELSE <<"n", "e", "x", "t">>

\* if lang not in ["cs", "en"]: lang = config.DEFAULT_LANG
ValidatedLang(lang) ==
    IF lang \in {<<"c", "s">>, <<"e", "n">>} THEN lang ELSE <<"e", "n">>

\* f"{lang}:{year or 'next'}:{round_num or 'next'}:{tz or 'default'}"
get_cache_key(lang, year, round_num, tz) ==
    lang \o <<":">> \o OrNext(year) \o <<":">> \o OrNext(round_num) \o <<":">>
         \o (IF Truthy(tz) THEN tz.text ELSE <<"d", "e", "f", "a", "u", "l", "t">>)

\* F1Service(timezone=tz).timezone_str: an unknown name falls back to UTC
F1ServiceTimezone(tz) ==
    LET timezone_str == IF Truthy(tz) THEN tz.text ELSE DEFAULT_TIMEZONE
    IN  IF timezone_str \in KnownZones THEN timezone_str ELSE UTC

\* the zone of the times after _convert_race_times_to_timezone(race_data,
\* target_tz_str): an unknown name returns the data as it was
convert_race_times_to_timezone(cached_tz, target_tz_str) ==
    IF target_tz_str \in KnownZones THEN target_tz_str ELSE cached_tz

\* the zone of the schedule times of the image the request is answered with:
\* the file written by the hourly job, or the image rendered on the fly
EffectiveTimezone(req) ==
    LET target_tz == IF Truthy(req.tz) THEN req.tz.text ELSE DEFAULT_TIMEZONE
        cached_tz == F1ServiceTimezone(req.tz)
    IN  IF ~IntTruthy(req.year) /\ ~IntTruthy(req.round) /\ req.file
        THEN IF target_tz # DEFAULT_TIMEZONE
             THEN convert_race_times_to_timezone(DEFAULT_TIMEZONE, target_tz)
             ELSE DEFAULT_TIMEZONE
        ELSE IF cached_tz # target_tz
             THEN convert_race_times_to_timezone(cached_tz, target_tz)
             ELSE cached_tz

\* the race rendered: the given round of the given year, or the next race
SelectedRace(req) ==
    IF IntTruthy(req.year) /\ IntTruthy(req.round)
    THEN [next |-> FALSE, year |-> req.year.n, round |-> req.round.n]
    ELSE [next |-> TRUE, year |-> 0, round |-> 0]

\* what a request is answered with when it misses the cache
Selection(req) ==
    [race |-> SelectedRace(req), lang |-> ValidatedLang(req.lang),
     tz |-> EffectiveTimezone(req)]

NoRequest ==
    [lang |-> <<"e", "n">>, year |-> NoInt, round |-> NoInt, tz |-> NoTz, file |-> FALSE]

KeyingIdle ==
    [pc |-> "idle", first |-> NoRequest, second |-> NoRequest,
     key1 |-> <<>>, key2 |-> <<>>, sel1 |-> Selection(NoRequest), sel2 |-> Selection(NoRequest)]

\* two requests arrive
KeyingRequests ==
    /\ keying.pc = "idle"
    /\ \E first \in KeyRequests, second \in KeyRequests :
        keying' = [KeyingIdle EXCEPT !.pc = "called", !.first = first, !.second = second]
    /\ UNCHANGED <<rvars, fit, http, s3, bk, i18n, fetch, scheduler, naming, gen, api, serve>>

\* each gets its cache key, after the language was validated, and its image
KeyingKeys ==
    /\ keying.pc = "called"
    /\ LET first == keying.first
           second == keying.second
       IN  keying' = [keying EXCEPT
               !.pc = "keyed",
               !.key1 = get_cache_key(ValidatedLang(first.lang), first.year, first.round, first.tz),
               !.key2 = get_cache_key(ValidatedLang(second.lang), second.year, second.round, second.tz),
               !.sel1 = Selection(first),
               !.sel2 = Selection(second)]
    /\ UNCHANGED <<rvars, fit, http, s3, bk, i18n, fetch, scheduler, naming, gen, api, serve>>

\* the state after Renderer(translator): the table, the typeface, no call yet
Init ==
    /\ pc = "idle"
    /\ translator \in Translators
    /\ family \in Families
    /\ race_data = NoRace
    /\ historical_data = NoHistorical
    /\ error_message = <<>>
    /\ image = NoImage
    /\ n_images = 0
    /\ ops = <<>>
    /\ row_y = 0
    /\ idx = 0
    /\ schedule_bottom = 0
    /\ countdown_bottom = 0
    /\ now = 0
    /\ result = NoResult
    /\ fit = FitIdle
    /\ http = HttpIdle
    /\ s3 = S3Idle
    /\ bk = BkIdle
    /\ i18n = I18nIdle
    /\ fetch = FetchIdle
    /\ scheduler = SchedIdle
    /\ naming = NamingIdle
    /\ gen = GenIdle
    /\ api = ApiIdle
    /\ serve = ServeIdle
    /\ keying = KeyingIdle

Next ==
    \/ RenderErrorDraw
    \/ RenderErrorReturn
    \/ RenderCalendar
    \/ DrawHeader
    \/ DrawTrackSection
    \/ DrawScheduleTitle
    \/ DrawScheduleRow
    \/ ScheduleEmpty
    \/ ScheduleRowRaises
    \/ CountdownNoRace
    \/ CountdownRaises
    \/ \E clock \in NowValues : CountdownPast(clock)
    \/ \E clock \in NowValues : CountdownDraw(clock)
    \/ DrawCircuitStats
    \/ DrawResultsSection
    \/ RenderCalendarReturn

Spec == Init /\ [][Next]_vars

\* the text-fit harness alone, beside one idle Renderer
FitInit ==
    /\ Init
    /\ translator = TrEn
    /\ family = "truetype"

FitNext ==
    \/ FitCall
    \/ FitReturn

SpecFit == FitInit /\ [][FitNext]_vars

\* the handler with the Renderer it drives
HttpInit ==
    /\ Init
    /\ family = "truetype"

HttpNext ==
    \/ HttpRequest
    \/ HttpStats
    \/ HttpCache
    \/ HttpPregenerated
    \/ HttpFetch
    \/ HttpNoRace
    \/ HttpHistorical
    \/ HttpRenderCalendar
    \/ HttpRenderReturned
    \/ HttpRenderRaised
    \/ HttpRaise
    \/ HttpExcept
    \/ HttpRenderError
    \/ HttpErrorReturned
    \/ HttpFinish
    \/ RenderErrorReturn
    \/ DrawHeader
    \/ DrawTrackSection
    \/ DrawScheduleTitle
    \/ DrawScheduleRow
    \/ ScheduleEmpty
    \/ ScheduleRowRaises
    \/ CountdownNoRace
    \/ CountdownRaises
    \/ \E clock \in NowValues : CountdownPast(clock)
    \/ \E clock \in NowValues : CountdownDraw(clock)
    \/ DrawCircuitStats
    \/ DrawResultsSection
    \/ RenderCalendarReturn

SpecHttp == HttpInit /\ [][HttpNext]_vars

\* cleanup_old_backups alone, beside one idle Renderer
BackupInit ==
    /\ Init
    /\ translator = TrEn
    /\ family = "truetype"

BackupNext ==
    \/ CleanupCall
    \/ CleanupListPage
    \/ CleanupListed
    \/ CleanupDeleteBatch
    \/ CleanupRaise
    \/ CleanupReturn

SpecBackup == BackupInit /\ [][BackupNext]_vars

\* perform_backup with the cleanup_old_backups call it makes
PerformNext ==
    \/ PerformCall
    \/ PerformMkstemp
    \/ PerformCopy
    \/ PerformUpload
    \/ PerformCleanup
    \/ PerformCleanupReturned
    \/ PerformCleanupRaised
    \/ PerformRaise
    \/ PerformFinally
    \/ CleanupListPage
    \/ CleanupListed
    \/ CleanupDeleteBatch
    \/ CleanupRaise
    \/ CleanupReturn

SpecPerform == BackupInit /\ [][PerformNext]_vars

\* get_translator alone
I18nNext ==
    \/ I18nDeploy
    \/ I18nCall

SpecI18n == BackupInit /\ [][I18nNext]_vars

\* _fetch_with_retry alone
FetchNext ==
    \/ FetchCall
    \/ FetchGet
    \/ FetchGetFails
    \/ FetchAfterLoop

SpecFetch == BackupInit /\ [][FetchNext]_vars

\* start_scheduler and stop_scheduler in any order
SchedNext ==
    \/ SchedDeploy
    \/ StartScheduler
    \/ StopScheduler

SpecSched == BackupInit /\ [][SchedNext]_vars

\* the two computations of the image key side by side
NamingNext ==
    \/ NamingCall
    \/ NamingReturn

SpecNaming == BackupInit /\ [][NamingNext]_vars

\* one run of collect_and_generate
GenNext ==
    \/ GenStart
    \/ GenDeleteFile
    \/ GenNextRace
    \/ GenDefaultImage
    \/ GenVariantsRead
    \/ GenVariant
    \/ GenFinish
    \/ GenRaise

SpecGen == BackupInit /\ [][GenNext]_vars

\* requests that record calls, interleaved with the flush job
ApiNext ==
    \/ RecordApiCall
    \/ FlushStart
    \/ FlushSaved
    \/ FlushFails

SpecApi == BackupInit /\ [][ApiNext]_vars

\* requests for pre-generated images, interleaved with the hourly job
ServeNext ==
    \/ GenNext
    \/ ServeRequest
    \/ ServeAnalytics
    \/ ServeSend

SpecServe == BackupInit /\ [][ServeNext]_vars

\* two requests and their cache keys
KeyingNext ==
    \/ KeyingRequests
    \/ KeyingKeys

SpecKeying == BackupInit /\ [][KeyingNext]_vars

-----------------------------------------------------------------------------
(* Properties of render_calendar and render_error *)

\* positions of a render_calendar call after the canvas was created
CalendarPcs == {"header", "track", "schedule", "rows", "countdown", "stats", "results",
                "bmp", "done", "raised"}

\* C1: during and after every render_calendar call there is exactly one
\* canvas, 800x480, 1-bit, white background, never replaced or resized by a
\* section renderer; the value returned is the BMP encoding of that canvas as
\* drawn: 800x480, 1 bit per pixel, 62 header and palette bytes plus 480 rows
\* of 100 bytes.
C1_OneCanvasEncoded ==
    pc \in CalendarPcs =>
        /\ n_images = 1
        /\ image = [id |-> 1, w |-> 800, h |-> 480, mode |-> "1", bg |-> 1]
        /\ pc = "done" =>
              /\ result.signature = "BM"
              /\ result.width = 800 /\ result.height = 480 /\ result.bits = 1
              /\ result.length = 62 + (100 * 480)
              /\ result.canvas = image.id
              /\ result.content = ops

\* a call with populated results returned, after a track map and a flag were
\* pasted into the canvas
C1_Witness ==
    /\ pc = "done"
    /\ historical_data.given /\ ~historical_data.is_new_track
    /\ Len(historical_data.race_results) = 3
    /\ \E k \in 1..Len(ops) : ops[k].kind = "paste" /\ ops[k].what = "flag"
    /\ \E k \in 1..Len(ops) : ops[k].kind = "paste" /\ ops[k].what = "map"
    /\ result.length > 0

\* C2: render_error draws, for a message of any length, exactly the first 60
\* characters of it (all of it when shorter) on one 800x480 1-bit canvas,
\* always reaches its return statement, and returns that canvas encoded.
C2_ErrorImage ==
    /\ pc = "error_bmp" => ENABLED RenderErrorReturn
    /\ pc \in {"error_bmp", "error_done"} =>
          /\ n_images = 1
          /\ image = [id |-> 1, w |-> 800, h |-> 480, mode |-> "1", bg |-> 1]
          /\ Len(ops) = 2
          /\ ops[2].text = [i \in 1..(IF Len(error_message) < 60 THEN Len(error_message)
                                      ELSE 60) |-> error_message[i]]
    /\ pc = "error_done" =>
          /\ result.width = 800 /\ result.height = 480 /\ result.bits = 1
          /\ result.canvas = image.id
          /\ result.content = ops

\* render_error returned for a message longer than 60 characters
C2_Witness ==
    /\ pc = "error_done"
    /\ Len(error_message) > 60
    /\ Len(ops[2].text) = 60

C3_InResults(o) == o.sect \in {"results", "qualifying", "race"}

\* C3: when historical_data is None or is_new_track is true, the results
\* section draws the separator line and the translated "NEW TRACK" message
\* and nothing else, whatever the result lists hold.
C3_NewTrackOnly ==
    (pc \in {"bmp", "done"} /\ (~historical_data.given \/ historical_data.is_new_track)) =>
        LET drawn == SelectSeq(ops, C3_InResults)
        IN  /\ Len(drawn) = 2
            /\ drawn[1].kind = "line" /\ drawn[1].what = "separator"
            /\ drawn[2].kind = "text" /\ drawn[2].what = "new_track"
            /\ drawn[2].text = (IF "new_track" \in DOMAIN translator
                                THEN translator["new_track"]
                                ELSE <<"N", "E", "W", " ", "T", "R", "A", "C", "K">>)

\* a new-track record with three qualifying and three race entries was rendered
C3_Witness ==
    /\ pc = "done"
    /\ historical_data.given /\ historical_data.is_new_track
    /\ Len(historical_data.qualifying_results) = 3
    /\ Len(historical_data.race_results) = 3

C7_InCountdown(o) == o.sect = "countdown"

\* the schedule holds an entry named "race" in any case that carries a
\* timestamp lying strictly after the clock reading
C7_RaceAhead ==
    \E i \in 1..Len(race_data.schedule) :
        LET e == race_data.schedule[i]
        IN  /\ e.name \in {"Race", "RACE", "race"}
            /\ e.datetime.kind \in {"str", "datetime"}
            /\ e.datetime.iso
            /\ e.datetime.t - now > 0

\* C7: once _draw_countdown_box has returned, the box (and its text) is on
\* the canvas exactly when the schedule has a "race" entry with a timestamp
\* strictly in the future; otherwise nothing was drawn and the value returned
\* is the schedule_bottom it was given.  A call that ended in an exception
\* drew no box.
C7_CountdownIff ==
    LET drawn == SelectSeq(ops, C7_InCountdown)
    IN  /\ pc \in {"stats", "results", "bmp", "done"} =>
              /\ (drawn # <<>>) <=> C7_RaceAhead
              /\ drawn # <<>> => /\ Len(drawn) = 2
                                 /\ drawn[1].kind = "rect"
                                 /\ drawn[2].kind = "text"
              /\ drawn = <<>> => countdown_bottom = schedule_bottom
        /\ pc \in {"header", "track", "schedule", "rows", "countdown", "raised"} =>
              drawn = <<>>

\* the box was drawn for a race entry named in capitals
C7_Witness ==
    /\ pc = "done"
    /\ SelectSeq(ops, C7_InCountdown) # <<>>
    /\ \E i \in 1..Len(race_data.schedule) : race_data.schedule[i].name = "RACE"

\* the race entry's timestamp equals the clock reading and no box was drawn
C7_WitnessAtStart ==
    /\ pc = "done"
    /\ SelectSeq(ops, C7_InCountdown) = <<>>
    /\ now = RaceTime
    /\ countdown_bottom = schedule_bottom

\* C8: the countdown box is a function of the font and of schedule_bottom
\* alone: its height is the height of the reference text plus 12, its top is
\* schedule_bottom + floor((328 - schedule_bottom - height) / 2), so two
\* renders that differ only in the translation table draw the same box.
C8_BoxIndependentOfLanguage ==
    LET drawn == SelectSeq(ops, C7_InCountdown)
        ref == textbbox(<<"A'", "Z^", "Y'", "g", "y">>, [family |-> family, size |-> 20])
        height == (ref[4] - ref[2]) + 12
        top == schedule_bottom + (((328 - schedule_bottom) - height) \div 2)
    IN  drawn # <<>> =>
            /\ drawn[1].y2 - drawn[1].y = height
            /\ drawn[1].y = top
            /\ drawn[1].y2 = top + height
            /\ countdown_bottom = top + height

\* the box was drawn under the table with accented characters, whose
\* countdown text is lower than the reference text
C8_Witness ==
    LET drawn == SelectSeq(ops, C7_InCountdown)
    IN  /\ drawn # <<>>
        /\ translator = TrCs
        /\ \E k \in 1..Len(drawn[2].text) : drawn[2].text[k] = "i'"
        /\ LET b == textbbox(drawn[2].text, [family |-> family, size |-> 20])
           IN  (b[4] - b[2]) + 12 # drawn[1].y2 - drawn[1].y

C9_IsRow(o) == o.sect = "schedule" /\ o.what = "name"

\* C9: a schedule of 6 entries has exactly 5 rows drawn.
C9_SixEntriesFiveRows ==
    (pc \in {"countdown", "stats", "results", "bmp", "done"}
        /\ Len(race_data.schedule) = 6) =>
        Len(SelectSeq(ops, C9_IsRow)) = 5

\* whether the timestamp of a schedule entry cannot be parsed
C10_Unparsable(e) ==
    e.datetime.kind = "none" \/ (e.datetime.kind = "str" /\ ~e.datetime.iso)

\* C10: an entry whose timestamp cannot be parsed does not abort
\* render_calendar; its row shows the entry's display_time and the call goes
\* on to return the image.
C10_UnparsableFallsBack ==
    /\ pc # "raised"
    /\ pc = "done" =>
          LET rows == SelectSeq(ops, C9_IsRow)
              times == SelectSeq(ops, LAMBDA o : o.sect = "schedule" /\ o.what = "time")
          IN  \A k \in 1..Len(rows) :
                  C10_Unparsable(race_data.schedule[k]) =>
                      times[k].text = race_data.schedule[k].display_time

\* the results of a record that is not a new track were drawn
C11_ResultsDrawn ==
    pc \in {"bmp", "done"} /\ historical_data.given /\ ~historical_data.is_new_track

C11_Flags == SelectSeq(ops, LAMBDA o : o.kind = "paste" /\ o.what = "flag")

C11_Years == SelectSeq(ops, LAMBDA o : o.kind = "text" /\ o.what = "year")

\* C11: the flag code of a country in COUNTRY_MAP is the table's value and
\* that of any other name is its first two characters in lowercase
\* ("Atlantis" gives "at", the empty name gives the empty code); whether or
\* not a flag file exists for the code, the year numeral is drawn once and
\* the columns are placed from the visual top; the flag is pasted exactly
\* when its file exists (Italy: it.bmp scaled to 87x58, USA: us.bmp 60x40,
\* Atlantis: at.bmp 30x20; none for "Narnia" and for the empty name).
C11_FlagCode ==
    /\ \A c \in DOMAIN COUNTRY_MAP : IsoCode(c) = COUNTRY_MAP[c]
    /\ IsoCode(<<"A", "t", "l", "a", "n", "t", "i", "s">>) = <<"a", "t">>
    /\ IsoCode(<<"N", "a", "r", "n", "i", "a">>) = <<"n", "a">>
    /\ IsoCode(<<"X">>) = <<"x">>
    /\ IsoCode(<<>>) = <<>>
    /\ C11_ResultsDrawn =>
          LET country == race_data.circuit.country
              height == CASE country = <<"I", "t", "a", "l", "y">> -> 58
                          [] country = <<"U", "S", "A">> -> 40
                          [] country = <<"A", "t", "l", "a", "n", "t", "i", "s">> -> 20
                          [] OTHER -> 0
          IN  /\ Len(C11_Years) = 1
              /\ Len(C11_Flags) = (IF height > 0 THEN 1 ELSE 0)
              /\ height > 0 => C11_Flags[1].y2 - C11_Flags[1].y = height
              /\ \E k \in 1..Len(ops) :
                    /\ ops[k].sect = "qualifying" /\ ops[k].what = "title"
                    /\ ops[k].y >= 385 /\ ops[k].y < 480

\* results were drawn for a country outside the table whose two-letter code
\* has no flag file: the year is there, the flag is not
C11_Witness ==
    /\ C11_ResultsDrawn
    /\ race_data.circuit.country = <<"N", "a", "r", "n", "i", "a">>
    /\ Len(C11_Years) = 1
    /\ C11_Flags = <<>>

\* results were drawn for "Atlantis", with the flag found under "at"
C11_WitnessFallback ==
    /\ C11_ResultsDrawn
    /\ race_data.circuit.country = <<"A", "t", "l", "a", "n", "t", "i", "s">>
    /\ Len(C11_Flags) = 1

\* the operations of one results column of the given kind
C12_Of(col, what) == SelectSeq(ops, LAMBDA o : o.sect = col /\ o.what = what)

\* the rows drawn in a column for the given result list: one per entry up to
\* three, the k-th row carrying the k-th entry's position, 20px apart
C12_Column(col, results) ==
    LET rows == C12_Of(col, "row")
        n == IF Len(results) < 3 THEN Len(results) ELSE 3
    IN  /\ Len(C12_Of(col, "title")) = 1
        /\ Len(rows) = n
        /\ \A k \in 1..n :
              /\ Len(rows[k].text) >= 2
              /\ rows[k].text[1] = <<"1", "2", "3", "4">>[results[k].position]
              /\ rows[k].text[2] = "."
              /\ rows[k].text[4] = results[k].driver[1]
              /\ k > 1 => rows[k].y = rows[k - 1].y + 20

\* C12: when historical results are rendered each column has its title once
\* and min(len(results), 3) rows in list order, also when a list is empty;
\* the call does not end in an exception inside the results section.
C12_TitleAndRows ==
    /\ pc = "raised" => SelectSeq(ops, LAMBDA o : o.sect = "stats") = <<>>
    /\ C11_ResultsDrawn =>
          /\ C12_Column("qualifying", historical_data.qualifying_results)
          /\ C12_Column("race", historical_data.race_results)

\* three qualifying entries and no race entry: three rows and a race title
C12_Witness ==
    /\ pc = "done"
    /\ C11_ResultsDrawn
    /\ Len(historical_data.qualifying_results) = 3
    /\ historical_data.race_results = <<>>
    /\ Len(C12_Of("qualifying", "row")) = 3
    /\ Len(C12_Of("race", "title")) = 1
    /\ C12_Of("race", "row") = <<>>

\* four qualifying entries: the fourth is not drawn
C12_WitnessFour ==
    /\ C11_ResultsDrawn
    /\ Len(historical_data.qualifying_results) = 4
    /\ Len(C12_Of("qualifying", "row")) = 3

\* the place of a drawing operation's section in the order of render_calendar
C13_Rank(o) ==
    CASE o.sect = "header" -> 1
      [] o.sect = "track" -> 2
      [] o.sect = "schedule" -> 3
      [] o.sect = "countdown" -> 4
      [] o.sect = "stats" -> 5
      [] OTHER -> 6

\* the place of a position of the call in that order
C13_Step(p) ==
    CASE p = "idle" -> 0
      [] p = "header" -> 1
      [] p = "track" -> 2
      [] p \in {"schedule", "rows"} -> 3
      [] p = "countdown" -> 4
      [] p = "stats" -> 5
      [] p = "results" -> 6
      [] p = "bmp" -> 7
      [] p = "done" -> 8
      [] OTHER -> 9

C13_Count(sect, what) ==
    Len(SelectSeq(ops, LAMBDA o : o.sect = sect /\ o.what = what))

\* the canvas shows the sections in the fixed order, each as one block and
\* each drawn once; the countdown step holds the y five pixels below the
\* place after the last row drawn
C13_Ordered ==
    /\ \A i, j \in 1..Len(ops) : i < j => C13_Rank(ops[i]) <= C13_Rank(ops[j])
    /\ \A k \in 1..Len(ops) :
          \/ C13_Rank(ops[k]) < C13_Step(pc)
          \/ pc = "rows" /\ ops[k].sect = "schedule"
    /\ pc \in {"bmp", "done"} =>
          /\ C13_Count("header", "line1") = 1
          /\ C13_Count("track", "label") = 1
          /\ C13_Count("schedule", "title") = 1
          /\ C13_Count("countdown", "box") <= 1
          /\ C13_Count("results", "separator") = 1
          /\ ops[Len(ops)].sect \in {"results", "qualifying", "race"}
    /\ pc \in {"countdown", "stats", "results", "bmp", "done"} =>
          schedule_bottom = 140 + (28 * C13_Count("schedule", "name")) + 5

\* C13: render_calendar runs the section renderers once each in the order
\* header, track map, schedule rows, countdown, circuit statistics,
\* historical results: every step of a call moves to the next section (or
\* stays in the row loop, or ends in an exception; the steps of render_error
\* are another call), the countdown comes after the last row with the y just
\* below it, and the results are last.
C13_FixedOrder ==
    /\ []C13_Ordered
    /\ [][\/ C13_Step(pc') = C13_Step(pc) + 1
          \/ pc \in {"schedule", "rows"} /\ pc' = "rows"
          \/ pc \in {"rows", "countdown"} /\ pc' = "raised"
          \/ pc' \in {"error_bmp", "error_done"}]_rvars

\* a call returned after drawing rows, the countdown box, statistics and
\* result columns
C13_Witness ==
    /\ pc = "done"
    /\ C13_Count("schedule", "name") >= 3
    /\ C13_Count("countdown", "box") = 1
    /\ C13_Count("stats", "value") >= 1
    /\ C13_Count("race", "row") >= 1

\* whether a file of the set carries the word in its name
C14_Matches(files, word) ==
    \E f \in files : \E k \in 0..(Len(f.stem) - Len(word)) :
        SubSeq(f.stem, k + 1, k + Len(word)) = word

\* C14: the placeholder outline is drawn only when there is no preprocessed
\* bitmap at all and no original image matches the circuit identifier or
\* the normalized locality.
C14_PlaceholderOnlyWithoutAsset ==
    (pc \in {"schedule", "rows", "countdown", "stats", "results", "bmp", "done"}
        /\ C13_Count("track", "placeholder") > 0) =>
        /\ TRACKS_PROCESSED = {}
        /\ ~C14_Matches(TRACKS, race_data.circuit.circuitId)
        /\ ~C14_Matches(TRACKS, Lower(race_data.circuit.circuitId))
        /\ ~C14_Matches(TRACKS, SpacesToUnderscores(Lower(race_data.circuit.location)))

C15_Label == SelectSeq(ops, LAMBDA o : o.sect = "track" /\ o.what = "label")

C15_Stats == SelectSeq(ops, LAMBDA o : o.sect = "stats" /\ o.what = "value")

\* C15: the bottom of the circuit label's text box and the bottom of the
\* circuit-stats block (1, 2 or 3 lines of 18px) are both at y = 382, three
\* pixels above the results separator at 385, whatever the label text and
\* however many schedule rows were drawn.
C15_SharedBaseline ==
    /\ C15_Label # <<>> =>
          C15_Label[1].y + textbbox(C15_Label[1].text, [family |-> family, size |-> 18])[4]
              = 385 - 3
    /\ (pc \in {"results", "bmp", "done"} /\ C15_Stats # <<>>) =>
          LET n == Len(C15_Stats)
          IN  /\ n \in 1..3
              /\ \A k \in 1..n : C15_Stats[k].y = (385 - 3) - ((n - k + 1) * 18)
              /\ C15_Stats[n].y + 18 = C15_Label[1].y
                     + textbbox(C15_Label[1].text, [family |-> family, size |-> 18])[4]

\* two stat lines were drawn after a schedule of six rows
C15_Witness ==
    /\ pc = "done"
    /\ Len(C15_Stats) = 2
    /\ C13_Count("schedule", "name") = 6

\* one stat line was drawn
C15_WitnessOne ==
    /\ pc = "done"
    /\ Len(C15_Stats) = 1

\* C16: whenever the countdown box is drawn its top is at or below
\* schedule_bottom and its bottom is at or above the top of the circuit-stats
\* block, y = 385 - 3 - 3 * 18 = 328.
C16_BoxWithinGap ==
    LET drawn == SelectSeq(ops, C7_InCountdown)
    IN  drawn # <<>> =>
            /\ drawn[1].y >= schedule_bottom
            /\ drawn[1].y2 <= 385 - 3 - (3 * 18)

\* C17: when a flag is drawn, the year numeral and the flag are centred as
\* one block in the footer (y from 385 to 480): the distance from the footer
\* top to the year's visual top and the distance from the flag's bottom edge
\* to the canvas bottom differ by at most one pixel.
C17_BlockCentred ==
    (C11_ResultsDrawn /\ C11_Flags # <<>>) =>
        LET year == C11_Years[1]
            above == (year.y + textbbox(year.text, [family |-> family, size |-> 36])[2]) - 385
            below == 480 - C11_Flags[1].y2
        IN  above - below \in {-1, 0, 1}

\* the countdown text for d days and h hours under the table of the call
C18_Text(d, h) ==
    LET word(key, default) == IF key \in DOMAIN translator THEN translator[key] ELSE default
    IN  word("countdown_in", <<"I", "N">>) \o <<" ">> \o Str(d) \o <<" ">> \o
        word("countdown_days", <<"d", "a", "y", "s">>) \o <<" ">> \o Str(h) \o <<" ">> \o
        word("countdown_hours", <<"h", "o", "u", "r", "s">>)

\* C18: the countdown text drawn for a remaining duration of s > 0 seconds
\* shows d days and h hours with d >= 0, 0 <= h <= 23 and
\* 24 * d + h = floor(s / 3600).
C18_DaysAndHours ==
    LET drawn == SelectSeq(ops, C7_InCountdown)
        race == SelectSeq(race_data.schedule, LAMBDA e : e.name \in {"Race", "RACE", "race"})
        s == race[1].datetime.t - now
    IN  drawn # <<>> =>
            /\ s > 0
            /\ \E d \in 0..7 : \E h \in 0..23 :
                  /\ (24 * d) + h = s \div 3600
                  /\ drawn[2].text = C18_Text(d, h)

\* the text drawn 1 day, 23 hours and 3599 seconds before the start
C18_Witness ==
    LET drawn == SelectSeq(ops, C7_InCountdown)
    IN  /\ drawn # <<>>
        /\ now = RaceTime - 172799
        /\ drawn[2].text = C18_Text(1, 23)

\* the text drawn one second before the start shows 0 days and 0 hours
C18_WitnessLastSecond ==
    LET drawn == SelectSeq(ops, C7_InCountdown)
    IN  /\ drawn # <<>>
        /\ now = RaceTime - 1
        /\ drawn[2].text = C18_Text(0, 0)

-----------------------------------------------------------------------------
(* Properties of the /calendar.bmp handler *)

\* the two texts render_error draws for the message, under the table in use
C19_ErrorOps(msg) ==
    << [sect |-> "error", kind |-> "text", what |-> "label", x |-> 15, y |-> 15,
        text |-> (IF "error" \in DOMAIN translator THEN translator["error"]
                  ELSE <<"E", "r", "r", "o", "r">>) \o <<":">>],
       [sect |-> "error", kind |-> "text", what |-> "message", x |-> 15, y |-> 65,
        text |-> SubSeq(msg, 1, IF Len(msg) < 60 THEN Len(msg) ELSE 60)] >>

C19_WitnessNoRace ==
    /\ http.pc = "responded"
    /\ http.raised
    /\ ~http.found
    /\ Len(http.exc) > 60
    /\ Len(http.body.content[2].text) = 60

\* objects the bucket held at the call and holds no more
C20_Deleted == s3.stored \ s3.bucket

\* now minus BACKUP_RETENTION_DAYS
C20_Cutoff == BackupNow - (s3.retention * (24 * 60))

\* keys sent in delete_objects requests
C20_Sent == SumSeq([k \in 1..Len(s3.requests) |-> Len(s3.requests[k])])

\* the backups of the bucket that are older than the cutoff
C20_OldBackups == {obj \in s3.stored : obj.prefixed /\ obj.LastModified < C20_Cutoff}

\* C20, as restated: cleanup_old_backups deletes only backup objects it listed whose
\* LastModified is strictly older than now minus BACKUP_RETENTION_DAYS, in
\* delete_objects requests of 1 to 1000 keys, and returns the number of objects
\* deleted; when no S3 request raises it deletes every such backup of the bucket;
\* when BACKUP_RETENTION_DAYS <= 0 it lists nothing, deletes nothing and returns 0.
C20_DeletesOldOnly ==
    /\ C20_Deleted \subseteq {obj \in s3.listed : obj.prefixed /\ obj.LastModified < C20_Cutoff}
    /\ \A k \in 1..Len(s3.requests) :
        Len(s3.requests[k]) >= 1 /\ Len(s3.requests[k]) <= DELETE_BATCH
    /\ s3.deleted_count = Cardinality(C20_Deleted)
    /\ C20_Sent = s3.deleted_count
    /\ s3.pc = "returned" => s3.result = Cardinality(C20_Deleted)
    /\ (s3.pc = "returned" /\ s3.retention > 0 /\ s3.client /\ ~s3.raised)
        => C20_Deleted = C20_OldBackups
    /\ s3.retention <= 0
        => s3.list_calls = 0 /\ s3.requests = <<>> /\ C20_Deleted = {} /\ s3.result = 0
    /\ s3.pc = "raised" => s3.list_calls = 0 /\ s3.requests = <<>>

\* C20, as stated: whenever the call has returned with a positive retention, exactly
\* the listed objects older than the cutoff are gone
C20_AsStated ==
    (s3.pc = "returned" /\ s3.retention > 0)
        => /\ C20_Deleted = {obj \in s3.listed : obj.LastModified < C20_Cutoff}
           /\ \A k \in 1..Len(s3.requests) : Len(s3.requests[k]) <= DELETE_BATCH
           /\ s3.result = Cardinality(C20_Deleted)

\* more than 1000 old backups went in two requests, the backup dated exactly at the
\* cutoff and the newer one were kept
C20_Witness ==
    /\ s3.pc = "returned"
    /\ ~s3.raised
    /\ s3.retention = 30
    /\ Len(s3.requests) = 2
    /\ Len(s3.requests[1]) = DELETE_BATCH
    /\ s3.result = DELETE_BATCH + 1
    /\ \E obj \in s3.bucket : obj.prefixed /\ obj.LastModified = cutoff_date(30)
    /\ \E obj \in s3.bucket : obj.prefixed /\ obj.LastModified > cutoff_date(30)

\* a delete request raised after an earlier one went through
C20_WitnessRaised ==
    /\ s3.pc = "returned"
    /\ s3.raised
    /\ s3.result = DELETE_BATCH
    /\ C20_Deleted # C20_OldBackups

\* retention is disabled and the bucket holds old backups
C20_WitnessDisabled ==
    /\ s3.pc = "returned"
    /\ s3.retention = 0
    /\ s3.client
    /\ \E obj \in s3.bucket : obj.prefixed /\ obj.LastModified = cutoff_date(30) - 1

-----------------------------------------------------------------------------
(* Properties of the image cache of the /calendar.bmp handler *)

\* C25: no entry of the image cache is an image of render_error: every entry is
\* the bytes of a pre-generated file or an image render_calendar returned.
C25_NoErrorCached ==
    \A k \in CacheKeys : http.cache[k] \in {"none", "file", "calendar"}

\* a second request was answered with an error image while the cache holds the
\* image of the first
C25_Witness ==
    /\ http.requests = 2
    /\ http.pc = "responded"
    /\ ImageKind(http.body) = "error"
    /\ \E k \in CacheKeys : http.cache[k] = "calendar"

\* the no-race error image was returned through the try block, nothing cached
C25_WitnessNoRace ==
    /\ http.pc = "responded"
    /\ ~http.raised
    /\ ~http.found
    /\ ImageKind(http.body) = "error"
    /\ \A k \in CacheKeys : http.cache[k] = "none"

-----------------------------------------------------------------------------
(* Properties of the name of a pre-generated image *)

\* C27: for each language and timezone value the image key of the handler equals
\* _get_image_key(lang, tz) of the scheduler, and it contains no "/".
C27_SameKeyNoSlash ==
    naming.pc = "returned"
        => /\ naming.handler = naming.scheduler
           /\ \A k \in 1..Len(naming.handler) : naming.handler[k] # "/"
           /\ (~naming.tz.given \/ naming.tz.text \in {<<>>, DEFAULT_TIMEZONE})
                <=> naming.handler = <<"c", "a", "l", "e", "n", "d", "a", "r", "_">> \o naming.lang

\* a timezone with "/" other than the default one
C27_Witness ==
    /\ naming.pc = "returned"
    /\ naming.lang = <<"e", "n">>
    /\ naming.handler = <<"c", "a", "l", "e", "n", "d", "a", "r", "_", "e", "n", "_",
                          "A", "m", "e", "r", "i", "c", "a", "_", "N", "e", "w", "_", "Y", "o", "r", "k">>

\* the empty timezone string
C27_WitnessEmpty ==
    /\ naming.pc = "returned"
    /\ naming.tz = TzStr(<<>>)
    /\ naming.scheduler = <<"c", "a", "l", "e", "n", "d", "a", "r", "_", "c", "s">>

-----------------------------------------------------------------------------
(* Properties of the cache key *)

\* C30: two requests with the same cache key select the same race, the same
\* language and the same effective timezone.
C30_SameKeySameImage ==
    (keying.pc = "keyed" /\ keying.key1 = keying.key2) => keying.sel1 = keying.sel2

\* C30, the part that holds: two requests with the same cache key select the
\* same race and the same language
C30_SameKeySameRaceAndLanguage ==
    (keying.pc = "keyed" /\ keying.key1 = keying.key2)
        => /\ keying.sel1.race = keying.sel2.race
           /\ keying.sel1.lang = keying.sel2.lang

-----------------------------------------------------------------------------
(* Properties of serving a pre-generated file *)

\* C29: once the handler has decided to serve a pre-generated file, the file
\* exists until the response body has been sent, whatever the hourly job does
\* in between.
C29_FileStillThere ==
    /\ serve.pc \in {"analytics", "returned"} => serve.key \in gen.files
    /\ serve.pc # "send_failed"

-----------------------------------------------------------------------------
(* Properties of the API calls buffer *)

\* C28: no recorded call is lost and none is inserted twice: every call recorded
\* so far is in exactly one place, the buffer, the list of the running flush or
\* the api_calls table, and so reaches the table exactly once.
C28_ExactlyOnce ==
    \A n \in 1..api.recorded :
        Occurrences(api.buffer, n) + Occurrences(api.calls, n) + Occurrences(api.table, n) = 1

\* C28, the part that holds: no call is inserted twice, and a call is in at most
\* one of the buffer, the running flush and the table
C28_NeverTwice ==
    \A n \in 1..api.recorded :
        Occurrences(api.buffer, n) + Occurrences(api.calls, n) + Occurrences(api.table, n) <= 1

\* C28, the part that holds: without a failed write no call is lost
C28_LostOnlyByFailedWrite ==
    api.failed = 0 => C28_ExactlyOnce

-----------------------------------------------------------------------------
(* Properties of collect_and_generate *)

\* C26: a run of collect_and_generate that deleted image files has called
\* clear_bmp_cache when it ends, however it ends: the cache holds no image from
\* before the run.
C26_ClearedAfterDelete ==
    (gen.pc = "ended" /\ gen.deleted > 0) => (gen.cleared /\ gen.cache = {})

\* C26, the part that holds: a run that generated all images has cleared the cache
C26_ClearedWhenCompleted ==
    (gen.pc = "ended" /\ gen.outcome = "completed") => (gen.cleared /\ gen.cache = {})

-----------------------------------------------------------------------------
(* Properties of perform_backup *)

\* C21, the part on cleanup: whenever perform_backup has returned after an upload
\* that went through, it has returned True, whatever happened in the cleanup of
\* old backups.
C21_CleanupKeepsTrue ==
    (bk.pc = "returned" /\ bk.uploads = 1) => bk.result

\* C21, the part on the temporary copy: whenever perform_backup has returned after
\* creating the copy, the copy is removed.
C21_CopyRemoved ==
    (bk.pc = "returned" /\ bk.temp # "none") => bk.temp = "removed"

\* C21, the rest: False without an upload attempt when the call stopped before the
\* try block; True only after an upload that went through
C21_FalseWithoutUpload ==
    bk.pc = "returned"
        => /\ bk.result => bk.uploads = 1
           /\ (bk.temp = "none" /\ bk.raised = "none") => (~bk.result /\ bk.uploads = 0)

-----------------------------------------------------------------------------
(* Properties of get_translator *)

\* what a call for the default language returns in the present state
C22_DefaultTable ==
    IF i18n.cache[i18n.default] # NotCached THEN i18n.cache[i18n.default]
    ELSE EmptyTable

\* C22: a get_translator call for a language without a translation file has
\* returned the table of the default language (the empty table when the default
\* language has no readable file either) and has not raised; once the file of a
\* language was loaded, every later call for it returns that same table.
C22_FallbackAndCache ==
    i18n.calls > 0
        => /\ i18n.files[i18n.lang] = "none" => i18n.result = C22_DefaultTable
           /\ i18n.first[i18n.lang] # NotCached => i18n.result = i18n.first[i18n.lang]
           /\ \A l \in I18nLangs :
                i18n.first[l] # NotCached => i18n.cache[l] = i18n.first[l]

\* an unknown language got the loaded table of the default language, and a later
\* call for the default language was answered from the cache
C22_Witness ==
    /\ i18n.calls >= 2
    /\ i18n.hit
    /\ i18n.lang = i18n.default
    /\ i18n.files["zz"] = "none"
    /\ i18n.result = LoadedTable(i18n.default, 1)
    /\ i18n.loads = 1

\* the default language has no file: the recursion ends in the empty table
C22_WitnessNoDefaultFile ==
    /\ i18n.calls > 0
    /\ i18n.files[i18n.lang] = "none"
    /\ i18n.files[i18n.default] = "none"
    /\ i18n.lang # i18n.default
    /\ i18n.result = EmptyTable

-----------------------------------------------------------------------------
(* Properties of _fetch_with_retry *)

\* C23: a call issues at most max_retries + 1 GET requests; every request but the
\* last was answered 429 and followed by a sleep of RETRY_BASE_DELAY * 2^attempt
\* seconds; a 2xx response is returned at once; another status error is raised
\* at once; after max_retries + 1 responses 429 that error is raised.
C23_RetriesOn429Only ==
    /\ Len(fetch.responses) <= Max(fetch.max_retries + 1, 0)
    /\ \A k \in 1..(Len(fetch.responses) - 1) : fetch.responses[k] = 429
    /\ Len(fetch.sleeps) = IF fetch.pc = "loop" THEN Len(fetch.responses)
                           ELSE Max(Len(fetch.responses) - 1, 0)
    /\ \A k \in 1..Len(fetch.sleeps) : fetch.sleeps[k] = 2 ^ (k - 1)
    /\ fetch.pc = "loop" => \A k \in 1..Len(fetch.responses) : fetch.responses[k] = 429
    /\ fetch.outcome = "returned"
        => IsSuccess(fetch.responses[Len(fetch.responses)])
    /\ fetch.outcome = "raised"
        => /\ fetch.status = fetch.responses[Len(fetch.responses)]
           /\ ~IsSuccess(fetch.status)
           /\ fetch.status = 429 => Len(fetch.responses) = fetch.max_retries + 1
    /\ (fetch.pc = "done" /\ fetch.max_retries >= 0) => fetch.outcome # "assert"

\* the default: four responses 429, sleeps of 1, 2 and 4 seconds, the 429 raised
C23_Witness ==
    /\ fetch.max_retries = MAX_RETRIES
    /\ fetch.responses = <<429, 429, 429, 429>>
    /\ fetch.sleeps = <<1, 2, 4>>
    /\ fetch.outcome = "raised"
    /\ fetch.status = 429

\* a retry that ends with a successful response
C23_WitnessRecovered ==
    /\ fetch.max_retries = MAX_RETRIES
    /\ fetch.responses = <<429, 429, 200>>
    /\ fetch.sleeps = <<1, 2>>
    /\ fetch.outcome = "returned"

-----------------------------------------------------------------------------
(* Properties of start_scheduler and stop_scheduler *)

\* C24, the part on stopping with none running: a stop_scheduler call made while
\* no scheduler was running is a no-op: it returns and leaves the global as it was.
C24_StopIsNoOp ==
    (scheduler.op = "stop" /\ scheduler.live_before = {})
        => scheduler.outcome = "returned" /\ scheduler.global = scheduler.global_before

\* C24, the rest: at most one scheduler is live, and it is the global; a start
\* while one is running or with SCHEDULER_ENABLED false makes no scheduler and
\* adds no job; a stop of the running scheduler leaves none live.
C24_AtMostOneLive ==
    /\ Cardinality(scheduler.live) <= 1
    /\ scheduler.live \subseteq {scheduler.global}
    /\ (scheduler.op = "start" /\ (scheduler.live_before # {} \/ ~scheduler.enabled))
        => scheduler.made = scheduler.made_before /\ scheduler.jobs = scheduler.jobs_before
    /\ ~scheduler.enabled => scheduler.global = NoScheduler
    /\ (scheduler.op = "stop" /\ scheduler.live_before # {})
        => scheduler.live = {} /\ scheduler.global = NoScheduler
    /\ \A j \in BagToSet(scheduler.jobs) : CopiesIn(j, scheduler.jobs) = 1

\* a second scheduler was made after the first was stopped
C24_WitnessRestart ==
    /\ scheduler.op = "start"
    /\ scheduler.made = 2
    /\ scheduler.live = {2}

-----------------------------------------------------------------------------
(* Properties of _fit_text *)

C4_Width(t) == SumSeq([i \in 1..Len(t) |-> Advance(t[i], fit.font)])

C4_Full == Str(fit.pos) \o <<".", " ">> \o fit.driver \o <<" ", "(">> \o fit.team \o <<")">>

\* C4: whenever the full composite is no wider than max_width, _fit_text
\* returns it unchanged.
C4_FitIdempotent ==
    (fit.pc = "returned" /\ C4_Width(C4_Full) <= fit.max_width) => fit.text = C4_Full

\* the full composite of two non-empty names measures exactly max_width
C4_Witness ==
    /\ fit.pc = "returned"
    /\ fit.driver # <<>> /\ fit.team # <<>>
    /\ C4_Width(C4_Full) = fit.max_width
    /\ fit.text = C4_Full

\* the composite built from a driver part and a team part
C5_Join(d, t) == Str(fit.pos) \o <<".", " ">> \o d \o <<" ", "(">> \o t \o <<")">>

C5_Fallback ==
    C5_Join(SubSeq(fit.driver, 1, Min(5, Len(fit.driver))) \o <<".", ".">>,
            SubSeq(fit.team, 1, Min(3, Len(fit.team))) \o <<".", ".">>)

\* the loop of len - 2 iterations over a name of len characters
C5_Iterations(len) == IF len > 2 THEN len - 2 ELSE 0

\* C5: a call of _fit_text returns after at most 1 + (len(team) - 2) +
\* (len(driver) - 2) width measurements (a loop over a name shorter than 3
\* characters makes none), and the text returned is no wider than max_width
\* or is the minimal fallback.
C5_FitTerminates ==
    fit.pc = "returned" =>
        /\ fit.measured >= 1
        /\ fit.measured <= 1 + C5_Iterations(Len(fit.team)) + C5_Iterations(Len(fit.driver))
        /\ \/ C4_Width(fit.text) <= fit.max_width
           \/ fit.text = C5_Fallback

\* the fallback was returned, wider than max_width, for names shorter than 3
C5_Witness ==
    /\ fit.pc = "returned"
    /\ Len(fit.driver) < 3 /\ Len(fit.team) < 3
    /\ fit.text = C5_Fallback
    /\ C4_Width(fit.text) > fit.max_width

\* the candidate with the full driver and the first i characters of the team
C6_TeamCand(i) == C5_Join(fit.driver, SubSeq(fit.team, 1, i) \o <<".", ".">>)

\* the candidate with the first i characters of the driver and the minimal team
C6_DriverCand(i) ==
    C5_Join(SubSeq(fit.driver, 1, i) \o <<".">>,
            SubSeq(fit.team, 1, Min(3, Len(fit.team))) \o <<".", ".">>)

C6_TeamFits == {i \in 3..Len(fit.team) : C4_Width(C6_TeamCand(i)) <= fit.max_width}

C6_DriverFits == {i \in 3..Len(fit.driver) : C4_Width(C6_DriverCand(i)) <= fit.max_width}

C6_Largest(S) == CHOOSE i \in S : \A j \in S : j <= i

====
